---------------------------- MODULE Spec2Model ----------------------------
(***************************************************************************)
(* A model of bitcoin-embed: the tagged message framing (message.rs), the  *)
(* envelope codec (envelope.rs), and the embedding scanner and identifier  *)
(* scheme (lib.rs).                                                        *)
(*                                                                         *)
(* Every operation of the library is a pure function.  Each subsystem has  *)
(* its own specification, whose Init draws the inputs from bounded sets    *)
(* and whose actions run the code on them:                                 *)
(*   SpecMsg  Message::new / Message::encode / Message::decode             *)
(*   SpecEnv  envelope::append_to_builder / envelope::from_script          *)
(*   SpecId   Embedding::id / Display and FromStr for EmbeddingId          *)
(*   SpecTx   Embedding::from_transaction                                  *)
(***************************************************************************)
EXTENDS Integers, Sequences, FiniteSets, TLC

VARIABLES
    \* ---- message.rs ----
    m_pc,        \* "new" | "made" | "encode" | "decode" | "done"
    m_new,       \* the arguments of Message::new
    m_made,      \* the value Message::new returned
    m_input,     \* the Vec<Message> handed to Message::encode
    m_encoded,   \* TRUE when m_bytes is the output of Message::encode
    m_bytes,     \* the byte slice handed to Message::decode
    m_index,     \* decode: `index`
    m_last_tag,  \* decode: `last_tag`
    m_messages,  \* decode: `messages`
    m_iter,      \* decode: the locals of the last loop iteration
    m_result,    \* decode: the value returned
    \* ---- envelope.rs ----
    e_pc,        \* "build" | "scan" | "done"
    e_chunks,    \* the Envelope handed to append_to_builder
    e_built,     \* TRUE when e_script is the script of append_to_builder
    e_script,    \* the instructions of the script handed to from_script
    e_pos,       \* from_script: instructions taken from the iterator so far
    e_envelopes, \* from_script: `envelopes`
    e_last,      \* from_script: the last call of from_instructions
    \* ---- lib.rs, EmbeddingId ----
    i_pc,        \* "embedding" | "raw" | "literal" | "id" | "string" |
                 \* "shown" | "done"
    i_embedding, \* the Embedding whose id() is taken
    i_raw,       \* a string handed to EmbeddingId::from_str
    i_id,        \* an EmbeddingId, of Embedding::id or of from_str
    i_string,    \* i_id.to_string()
    i_result,    \* EmbeddingId::from_str of i_raw, then of i_string
    \* ---- lib.rs, Embedding::from_transaction ----
    t_pc,        \* "outputs" | "witness" | "annex" | "done"
    t_tx,        \* the Transaction
    t_i,         \* the loops' `output` / `input`: items enumerated so far
    t_embeddings, \* `embeddings`
    \* ---- tagged_data.rs ----
    g_pc,        \* "encode" | "decode" | "done"
    g_input,     \* the Vec<TaggedData> handed to TaggedData::encode
    g_encoded,   \* TRUE when g_bytes is the output of TaggedData::encode
    g_bytes,     \* the byte slice handed to TaggedData::decode
    g_index,     \* decode: `index`
    g_last_tag,  \* decode: `last_tag`
    g_chunks,    \* decode: `chunks`
    g_result     \* decode: the value returned

msgVars == <<m_pc, m_new, m_made, m_input, m_encoded, m_bytes, m_index, m_last_tag,
             m_messages, m_iter, m_result>>

envVars == <<e_pc, e_chunks, e_built, e_script, e_pos, e_envelopes, e_last>>

idVars == <<i_pc, i_embedding, i_raw, i_id, i_string, i_result>>

txVars == <<t_pc, t_tx, t_i, t_embeddings>>

tagVars == <<g_pc, g_input, g_encoded, g_bytes, g_index, g_last_tag, g_chunks,
             g_result>>

vars == <<msgVars, envVars, idVars, txVars, tagVars>>

(***************************************************************************)
(* Bounds of the model.                                                    *)
(***************************************************************************)
MaxRecords == 3     \* records in one Message::encode input
MaxRawLen  == 4     \* bytes in one hand-made Message::decode input
MaxChunks  == 2     \* chunks in one append_to_builder input
MaxScriptLen == 5   \* instructions in one hand-made script
MaxSegments == 4    \* groups and opcodes in one script made of groups
MaxIndex == 11      \* an output, input or envelope index of an identifier
MaxTagged == 3      \* chunks in one TaggedData::encode input
MaxLiveLen == 2     \* bytes in one hand-made input of the decode checked
                    \* for termination

(***************************************************************************)
(* A specification runs one subsystem; the variables of the others rest.   *)
(***************************************************************************)
NoAttempt == [from |-> 0, to |-> 0, before |-> <<>>]

IdleMsg ==
    /\ m_pc = "idle" /\ m_new = <<>> /\ m_made = <<>> /\ m_input = <<>> /\ m_encoded = FALSE /\ m_bytes = <<>>
    /\ m_index = 0 /\ m_last_tag = <<>> /\ m_messages = <<>>
    /\ m_iter = <<>> /\ m_result = <<>>

IdleEnv ==
    /\ e_pc = "idle" /\ e_chunks = <<>> /\ e_built = FALSE /\ e_script = <<>>
    /\ e_pos = 0 /\ e_envelopes = <<>> /\ e_last = NoAttempt

IdleId ==
    /\ i_pc = "idle" /\ i_embedding = <<>> /\ i_raw = <<>> /\ i_id = <<>>
    /\ i_string = <<>> /\ i_result = <<>>

IdleTx ==
    /\ t_pc = "idle" /\ t_tx = <<>> /\ t_i = 0 /\ t_embeddings = <<>>

IdleTag ==
    /\ g_pc = "idle" /\ g_input = <<>> /\ g_encoded = FALSE /\ g_bytes = <<>>
    /\ g_index = 0 /\ g_last_tag = <<>> /\ g_chunks = <<>> /\ g_result = <<>>

(***************************************************************************)
(* u128.  TLC's integers are 32 bits wide, so a u128 is held as its        *)
(* base-128 digits, least significant first, without a most significant    *)
(* zero digit (zero is the empty sequence).  These are the 7-bit groups of *)
(* the LEB128 form.                                                        *)
(***************************************************************************)
RECURSIVE FromNat(_)
FromNat(n) == IF n = 0 THEN <<>> ELSE <<n % 128>> \o FromNat(n \div 128)

RECURSIVE ToNat(_)
ToNat(d) == IF d = <<>> THEN 0 ELSE d[1] + 128 * ToNat(Tail(d))

RECURSIVE Normalize(_)
Normalize(d) ==
    IF d # <<>> /\ d[Len(d)] = 0
    THEN Normalize(SubSeq(d, 1, Len(d) - 1))
    ELSE d

\* (mutant: no value has the terminal bit)
IsOdd_never(v) == FALSE

\* value % 2 == 1
IsOdd(v) == v # <<>> /\ v[1] % 2 = 1

\* value / 2
Half(v) ==
    Normalize([i \in 1..Len(v) |->
        (v[i] \div 2) + (IF i < Len(v) THEN (v[i + 1] % 2) * 64 ELSE 0)])

\* 2 * value + bit
DoublePlus(v, bit) ==
    Normalize([i \in 1..(Len(v) + 1) |->
        (IF i <= Len(v) THEN (2 * v[i]) % 128 ELSE 0)
        + (IF i = 1 THEN bit ELSE v[i - 1] \div 64)])

\* value > u32::MAX, 2^32 = 16 * 128^4
GtU32Max(v) == Len(v) > 5 \/ (Len(v) = 5 /\ v[5] >= 16)

\* value > (1 << 127) - 1, 2^127 = 2 * 128^18
GtTagMax(v) == Len(v) > 19 \/ (Len(v) = 19 /\ v[19] >= 2)

\* (1 << 127) - 1 and 1 << 127
TAG_MAX == [i \in 1..19 |-> IF i < 19 THEN 127 ELSE 1]
TAG_OVER == [i \in 1..19 |-> IF i < 19 THEN 0 ELSE 2]

(***************************************************************************)
(* varint: unsigned LEB128, 7 bits per byte, least significant group       *)
(* first, the high bit of a byte says another byte follows.                *)
(***************************************************************************)
varint_encode(value) ==
    IF value = <<>>
    THEN <<0>>
    ELSE [i \in 1..Len(value) |->
            IF i < Len(value) THEN value[i] + 128 ELSE value[i]]

\* Ok((value, size)), or Err when the bytes end before a byte without the
\* continuation bit.
varint_decode(bytes) ==
    LET ends == {k \in 1..Len(bytes) : bytes[k] < 128} IN
    IF ends = {}
    THEN [ok |-> FALSE, value |-> <<>>, size |-> 0]
    ELSE LET size == CHOOSE k \in ends : \A j \in ends : k <= j IN
         [ok |-> TRUE,
          value |-> Normalize([i \in 1..size |-> bytes[i] % 128]),
          size |-> size]

(***************************************************************************)
(* message.rs                                                              *)
(***************************************************************************)
REPEAT == <<>>      \* tags::REPEAT, the tag 0

Msg(tag, body) == [tag |-> tag, body |-> body]

\* value > u128::MAX, 2^128 = 4 * 128^18
GtU128Max(v) == Len(v) > 19 \/ (Len(v) = 19 /\ v[19] >= 4)

\* (mutant: the tag 1 << 127 is let through)
Message_new_tag_over(tag, body, len) ==
    IF tag = REPEAT \/ (GtTagMax(tag) /\ tag # TAG_OVER)
    THEN [ok |-> FALSE, error |-> "InvalidTag", message |-> Msg(<<>>, <<>>)]
    ELSE IF GtU32Max(len)
    THEN [ok |-> FALSE, error |-> "InvalidByteCount", message |-> Msg(<<>>, <<>>)]
    ELSE [ok |-> TRUE, error |-> "", message |-> Msg(tag, body)]

\* Message::new, `len` being body.len()
Message_new_len(tag, body, len) ==
    IF tag = REPEAT \/ GtTagMax(tag)
    THEN [ok |-> FALSE, error |-> "InvalidTag", message |-> Msg(<<>>, <<>>)]
    ELSE IF GtU32Max(len)
    THEN [ok |-> FALSE, error |-> "InvalidByteCount", message |-> Msg(<<>>, <<>>)]
    ELSE [ok |-> TRUE, error |-> "", message |-> Msg(tag, body)]

\* Message::new
Message_new(tag, body) == Message_new_len(tag, body, FromNat(Len(body)))

\* Message::encode: what the loop body writes for one message, for the tag ...
encode_tag(message, last_tag, is_last) ==
    IF message.tag = last_tag
    THEN <<IF is_last THEN 1 ELSE 0>>
    ELSE varint_encode(DoublePlus(message.tag, IF is_last THEN 1 ELSE 0))

\* (mutant: the length is written for the last message too)
encode_length_always(message, is_last) ==
    varint_encode(FromNat(Len(message.body)))

\* ... and for the length.
encode_length(message, is_last) ==
    IF ~is_last THEN varint_encode(FromNat(Len(message.body))) ELSE <<>>

\* Message::encode: the loop from message i on, `bytes` and `last_tag` as the
\* loop holds them.
RECURSIVE encode_loop(_, _, _, _)
encode_loop(messages, i, last_tag, bytes) ==
    IF i > Len(messages)
    THEN bytes
    ELSE LET message == messages[i]
             is_last == (i = Len(messages))
         IN encode_loop(messages, i + 1,
                IF message.tag = last_tag THEN last_tag ELSE message.tag,
                bytes \o encode_tag(message, last_tag, is_last)
                      \o encode_length(message, is_last)
                      \o message.body)

Message_encode(messages) == encode_loop(messages, 1, <<>>, <<>>)

\* (mutant: the sentinel is let through, only a repeated real tag is rejected)
decode_tag_invalid_nonzero(tag, last_tag) == tag = last_tag /\ tag # REPEAT

\* (mutant: the length is taken as it is, however large)
decode_length_unchecked(n, rest) ==
    IF n = <<>>
    THEN [ok |-> TRUE, length |-> rest]
    ELSE [ok |-> TRUE, length |-> IF Len(n) > 4 THEN -1 ELSE ToNat(n)]

\* (mutant: only a sentinel with no tag before it is rejected)
decode_tag_invalid_first(tag, last_tag) == tag = REPEAT /\ last_tag = REPEAT

\* Message::decode, line 115: the tag that is rejected.
decode_tag_invalid(tag, last_tag) == tag = last_tag

\* Message::decode, lines 141-147: the body length for the length varint n,
\* `rest` bytes being left after it.  -1 stands for a length that exceeds
\* every slice (n.try_into() of a value of 128^4 or more).
decode_length(n, rest) ==
    IF n = <<>>
    THEN [ok |-> TRUE, length |-> rest]
    ELSE IF GtU32Max(n)
    THEN [ok |-> FALSE, length |-> 0]
    ELSE [ok |-> TRUE, length |-> IF Len(n) > 4 THEN -1 ELSE ToNat(n)]

\* (mutant: the record is taken to have a length field whenever asked)
decode_length_missing_never(bytes, index) == FALSE

\* (mutant: an unfinished length varint is reported as missing)
decode_length_missing_unfinished(bytes, index) ==
    \A k \in (index + 1)..Len(bytes) : bytes[k] >= 128

\* Message::decode, line 134: no byte is left for the length varint
decode_length_missing(bytes, index) == index >= Len(bytes)

\* Message::decode, line 149: the body runs past the end of the input
decode_body_missing(bytes, index, length) ==
    length < 0 \/ index + length > Len(bytes)

\* (mutant: a body that ends the input is rejected whatever n is)
decode_final_size_byte_any(bytes, index, n, length) ==
    index + length = Len(bytes)

\* Message::decode, line 153: a record with a length field ends the input
decode_final_size_byte(bytes, index, n, length) ==
    n # <<>> /\ index + length = Len(bytes)

NoIter == [is_last |-> FALSE, value |-> <<>>, n |-> <<>>, read_n |-> FALSE,
           pushed |-> FALSE, start |-> 0, body_at |-> 0]

Ok(messages) == [ok |-> TRUE, error |-> "", messages |-> messages]
Err(error) == [ok |-> FALSE, error |-> error, messages |-> <<>>]
NoResult == [ok |-> FALSE, error |-> "pending", messages |-> <<>>]

\* One iteration of the while loop of Message::decode: the locals after it
\* and how it leaves the loop ("next", "break", or "return" of an error).
decode_iteration(bytes, index, last_tag, messages) ==
    LET v == varint_decode(SubSeq(bytes, index + 1, Len(bytes)))
        index1 == index + v.size
        is_last == IsOdd(v.value)
        tag0 == Half(v.value)
        tag == IF tag0 = REPEAT THEN last_tag ELSE tag0
        nv == varint_decode(SubSeq(bytes, index1 + 1, Len(bytes)))
        index2 == index1 + nv.size
        dl == decode_length(nv.value, Len(bytes) - index2)
        length == dl.length
        it == [is_last |-> is_last, value |-> v.value, n |-> <<>>,
               read_n |-> FALSE, pushed |-> FALSE, start |-> index,
               body_at |-> index1]
        itn == [it EXCEPT !.n = nv.value, !.read_n = TRUE, !.body_at = index2]
        stop(error, iter) ==
            [exit |-> "return", error |-> error, index |-> index,
             last_tag |-> last_tag, messages |-> messages, iter |-> iter]
    IN
    IF ~v.ok THEN stop("InvalidVarInt", [NoIter EXCEPT !.start = index])
    ELSE IF decode_tag_invalid(tag0, last_tag) THEN stop("InvalidTag", it)
    ELSE IF is_last
    THEN [exit |-> "break", error |-> "", index |-> index1, last_tag |-> tag,
          messages |-> Append(messages,
                          Msg(tag, SubSeq(bytes, index1 + 1, Len(bytes)))),
          iter |-> [it EXCEPT !.pushed = TRUE]]
    ELSE IF decode_length_missing(bytes, index1) THEN stop("MissingBytes", it)
    ELSE IF ~nv.ok THEN stop("InvalidVarInt", it)
    ELSE IF ~dl.ok THEN stop("InvalidByteCount", itn)
    ELSE IF decode_body_missing(bytes, index2, length)
    THEN stop("MissingBytes", itn)
    ELSE IF decode_final_size_byte(bytes, index2, nv.value, length)
    THEN stop("InvalidFinalSizeByte", itn)
    ELSE [exit |-> "next", error |-> "", index |-> index2 + length,
          last_tag |-> tag,
          messages |-> Append(messages,
                          Msg(tag, SubSeq(bytes, index2 + 1, index2 + length))),
          iter |-> [itn EXCEPT !.pushed = TRUE]]

\* ---- inputs ----
Tags == {FromNat(1), FromNat(2), TAG_MAX}
Bodies == {<<>>, <<0>>, <<1, 2>>, <<3, 4>>, <<5, 6>>}

\* every (tag, body) handed to Message::new, the rejected tags among them
NewInputs == (Tags \cup {REPEAT, TAG_OVER}) \X Bodies

Messages ==
    {Message_new(p[1], p[2]).message :
        p \in {q \in NewInputs : Message_new(q[1], q[2]).ok}}

RECURSIVE ConcatAll(_)
ConcatAll(ss) == IF ss = <<>> THEN <<>> ELSE ss[1] \o ConcatAll(Tail(ss))

SeqsUpTo(S, n) == UNION {[1..k -> S] : k \in 0..n}

RawBytes == {0, 1, 2, 3, 4, 5, 128, 129}

\* length varints of 2^32 - 1 and of 2^32
WideInputs ==
    {<<t>> \o w \o r :
        t \in {2, 3},
        w \in {<<255, 255, 255, 255, 15>>, <<128, 128, 128, 128, 16>>},
        r \in {<<>>, <<7>>}}

\* u32::MAX and u32::MAX + 1
U32_MAX == <<127, 127, 127, 127, 15>>
U32_OVER == <<0, 0, 0, 0, 16>>

\* the arguments of Message::new: a tag and a body.  A body of u32::MAX
\* bytes or more (the vec![0; n] of test_new_invalid_byte_count) is too long
\* to be held: `held` is FALSE, only its length is kept.
NewArguments ==
    {[tag |-> p[1], body |-> p[2], len |-> FromNat(Len(p[2])), held |-> TRUE] :
        p \in NewInputs}
    \cup [tag : Tags \cup {REPEAT, TAG_OVER}, body : {<<>>},
          len : {U32_MAX, U32_OVER}, held : {FALSE}]

\* the inputs of test_decode_invalid_varint, test_decode_missing_bytes and
\* test_decode_invalid_final_size_byte, and an unfinished length varint
TestInputs == {<<255>>, <<2, 10, 1, 2, 3>>, <<2, 3, 1, 2, 3>>, <<2, 128>>}

InitMsg ==
    /\ IdleEnv /\ IdleId /\ IdleTx /\ IdleTag
    /\ \/ /\ m_pc = "new"
          /\ m_new \in NewArguments
          /\ m_input = <<>>
          /\ m_bytes = <<>>
       \/ /\ m_pc = "encode"
          /\ m_new = <<>>
          /\ m_input \in SeqsUpTo(Messages, MaxRecords)
          /\ m_bytes = <<>>
       \/ /\ m_pc = "decode"
          /\ m_new = <<>>
          /\ m_input = <<>>
          /\ m_bytes \in SeqsUpTo(RawBytes, MaxRawLen) \cup WideInputs
                           \cup TestInputs
    /\ m_made = <<>>
    /\ m_encoded = FALSE
    /\ m_index = 0
    /\ m_last_tag = <<>>
    /\ m_messages = <<>>
    /\ m_iter = NoIter
    /\ m_result = NoResult

\* Message::new(m_new.tag, m_new.body); a message that was made and is held
\* is handed to Message::encode
New ==
    /\ m_pc = "new"
    /\ LET r == Message_new_len(m_new.tag, m_new.body, m_new.len) IN
       /\ m_made' = r
       /\ IF r.ok /\ m_new.held
          THEN m_pc' = "encode" /\ m_input' = <<r.message>>
          ELSE m_pc' = "made" /\ UNCHANGED m_input
    /\ UNCHANGED <<m_new, m_encoded, m_bytes, m_index, m_last_tag, m_messages,
                   m_iter, m_result>>
    /\ UNCHANGED <<envVars, idVars, txVars, tagVars>>

\* Message::encode(m_input), its output handed to Message::decode
Encode ==
    /\ m_pc = "encode"
    /\ m_bytes' = Message_encode(m_input)
    /\ m_encoded' = TRUE
    /\ m_pc' = "decode"
    /\ UNCHANGED <<m_new, m_made, m_input, m_index, m_last_tag, m_messages,
                   m_iter, m_result>>
    /\ UNCHANGED <<envVars, idVars, txVars, tagVars>>

\* Message::decode: one iteration of `while index < bytes.len()`
DecodeIter ==
    /\ m_pc = "decode"
    /\ m_index < Len(m_bytes)
    /\ \E r \in {decode_iteration(m_bytes, m_index, m_last_tag, m_messages)} :
       /\ m_index' = r.index
       /\ m_last_tag' = r.last_tag
       /\ m_messages' = r.messages
       /\ m_iter' = r.iter
       /\ m_pc' = IF r.exit = "next" THEN "decode" ELSE "done"
       /\ m_result' = IF r.exit = "return" THEN Err(r.error)
                      ELSE IF r.exit = "break" THEN Ok(r.messages)
                      ELSE m_result
    /\ UNCHANGED <<m_new, m_made, m_input, m_encoded, m_bytes>>
    /\ UNCHANGED <<envVars, idVars, txVars, tagVars>>

\* Message::decode: the loop condition fails, Ok(messages)
DecodeExit ==
    /\ m_pc = "decode"
    /\ m_index >= Len(m_bytes)
    /\ m_result' = Ok(m_messages)
    /\ m_pc' = "done"
    /\ UNCHANGED <<m_new, m_made, m_input, m_encoded, m_bytes, m_index,
                   m_last_tag, m_messages, m_iter>>
    /\ UNCHANGED <<envVars, idVars, txVars, tagVars>>

NextMsg == New \/ Encode \/ DecodeIter \/ DecodeExit

SpecMsg == InitMsg /\ [][NextMsg]_vars

\* ---- Message::decode alone, with fairness ----
\* inputs read by several iterations: four records, the last one terminal;
\* two records, the second with the length 0; a tag repeated by the third
\* record
LoopInputs ==
    {<<2, 1, 5, 4, 1, 6, 2, 2, 7, 8, 7, 9>>,
     <<2, 1, 5, 4, 0, 6, 6>>,
     <<2, 1, 5, 4, 1, 6, 4, 1, 7>>}

LiveInputs ==
    SeqsUpTo(RawBytes, MaxLiveLen) \cup WideInputs \cup TestInputs
    \cup LoopInputs
    \cup {Message_encode(ms) :
            ms \in SeqsUpTo({Msg(FromNat(1), <<0>>), Msg(FromNat(2), <<1, 2>>)},
                            MaxRecords)}

InitDecode ==
    /\ IdleEnv /\ IdleId /\ IdleTx /\ IdleTag
    /\ m_pc = "decode"
    /\ m_new = <<>>
    /\ m_made = <<>>
    /\ m_input = <<>>
    /\ m_encoded = FALSE
    /\ m_bytes \in LiveInputs
    /\ m_index = 0
    /\ m_last_tag = <<>>
    /\ m_messages = <<>>
    /\ m_iter = NoIter
    /\ m_result = NoResult

NextDecode == DecodeIter \/ DecodeExit

\* decode is sequential code: a call that can take a step takes it
SpecDecodeLive == InitDecode /\ [][NextDecode]_vars /\ WF_vars(NextDecode)


(***************************************************************************)
(* envelope.rs.  A script is held as the instructions script.instructions() *)
(* yields: data pushes and opcodes, and possibly one parse error, after     *)
(* which the iterator is empty.                                            *)
(***************************************************************************)
MAX_SCRIPT_ELEMENT_SIZE == 520
OP_PUSHNUM_NEG1 == 79
OP_PUSHNUM_1 == 81
OP_PUSHNUM_16 == 96
OP_IF == 99
OP_ENDIF == 104
OP_DUP == 118
OP_CHECKSIG == 172

PushBytes(bytes) == [kind |-> "PushBytes", code |-> 0, bytes |-> bytes]
Op(code) == [kind |-> "Op", code |-> code, bytes |-> <<>>]
ScriptError == [kind |-> "Err", code |-> 0, bytes |-> <<>>]

\* opcodes::OP_FALSE is the opcode OP_PUSHBYTES_0: the instruction it makes
\* is the push of no bytes.
OP_FALSE == PushBytes(<<>>)

\* (mutant: what follows the first chunk is dropped)
slice_chunks_first(bytes, size) ==
    IF bytes = <<>> THEN <<>>
    ELSE IF Len(bytes) <= size THEN <<bytes>>
    ELSE <<SubSeq(bytes, 1, size)>>

\* slice::chunks(size)
RECURSIVE slice_chunks(_, _)
slice_chunks(bytes, size) ==
    IF bytes = <<>> THEN <<>>
    ELSE IF Len(bytes) <= size THEN <<bytes>>
    ELSE <<SubSeq(bytes, 1, size)>>
         \o slice_chunks(SubSeq(bytes, size + 1, Len(bytes)), size)

\* (mutant: a chunk is pushed whole, whatever its length)
builder_pushes_whole(envelope) ==
    [i \in 1..Len(envelope) |-> PushBytes(envelope[i])]

\* append_to_builder: the loops over the envelope, one push_slice for each
\* chunk of at most MAX_SCRIPT_ELEMENT_SIZE bytes
RECURSIVE builder_pushes(_)
builder_pushes(envelope) ==
    IF envelope = <<>> THEN <<>>
    ELSE LET cs == slice_chunks(envelope[1], MAX_SCRIPT_ELEMENT_SIZE) IN
         [i \in 1..Len(cs) |-> PushBytes(cs[i])]
         \o builder_pushes(Tail(envelope))

append_to_builder(envelope, builder) ==
    builder \o <<OP_FALSE, Op(OP_IF)>> \o builder_pushes(envelope)
            \o <<Op(OP_ENDIF)>>

append_bytes_to_builder(bytes, builder) == append_to_builder(<<bytes>>, builder)

\* (mutant: the instruction is compared and left in the iterator)
accept_peek_only(instructions, pos, instruction) ==
    IF pos < Len(instructions) /\ instructions[pos + 1] = instruction
    THEN [accepted |-> TRUE, pos |-> pos]
    ELSE [accepted |-> FALSE, pos |-> pos]

\* (mutant: the next instruction is taken whatever it is)
accept_takes_next(instructions, pos, instruction) ==
    IF pos < Len(instructions) /\ instructions[pos + 1] = instruction
    THEN [accepted |-> TRUE, pos |-> pos + 1]
    ELSE [accepted |-> FALSE,
          pos |-> IF pos < Len(instructions) THEN pos + 1 ELSE pos]

\* accept: takes the next instruction if it is `instruction`
accept(instructions, pos, instruction) ==
    IF pos < Len(instructions) /\ instructions[pos + 1] = instruction
    THEN [accepted |-> TRUE, pos |-> pos + 1]
    ELSE [accepted |-> FALSE, pos |-> pos]

\* from_instructions, lines 81-131: the chunk of a numeric push opcode
IsPushNum(code) ==
    code = OP_PUSHNUM_NEG1 \/ (OP_PUSHNUM_1 <= code /\ code <= OP_PUSHNUM_16)

\* (mutant: the chunk holds the opcode itself)
pushnum_chunk_opcode(code) == <<code>>

pushnum_chunk(code) ==
    IF code = OP_PUSHNUM_NEG1 THEN <<129>> ELSE <<code - OP_PUSHNUM_1 + 1>>

\* (mutant: a candidate that meets a disallowed opcode is returned)
RECURSIVE payload_loop_partial(_, _, _)
payload_loop_partial(instructions, pos, payload) ==
    IF pos >= Len(instructions)
    THEN [kind |-> "None", payload |-> payload, pos |-> pos]
    ELSE LET ins == instructions[pos + 1] IN
         IF ins.kind = "Err"
         THEN [kind |-> "Err", payload |-> payload, pos |-> pos + 1]
         ELSE IF ins = Op(OP_ENDIF)
         THEN [kind |-> "Some", payload |-> payload, pos |-> pos + 1]
         ELSE IF ins.kind = "Op" /\ IsPushNum(ins.code)
         THEN payload_loop_partial(instructions, pos + 1,
                  Append(payload, pushnum_chunk(ins.code)))
         ELSE IF ins.kind = "PushBytes"
         THEN payload_loop_partial(instructions, pos + 1,
                  Append(payload, ins.bytes))
         ELSE [kind |-> "Some", payload |-> payload, pos |-> pos + 1]

\* from_instructions, lines 75-137: the loop.  `payload` of a result that is
\* not Some is what the loop had collected when it returned.
RECURSIVE payload_loop(_, _, _)
payload_loop(instructions, pos, payload) ==
    IF pos >= Len(instructions)
    THEN [kind |-> "None", payload |-> payload, pos |-> pos]
    ELSE LET ins == instructions[pos + 1] IN
         IF ins.kind = "Err"
         THEN [kind |-> "Err", payload |-> payload, pos |-> pos + 1]
         ELSE IF ins = Op(OP_ENDIF)
         THEN [kind |-> "Some", payload |-> payload, pos |-> pos + 1]
         ELSE IF ins.kind = "Op" /\ IsPushNum(ins.code)
         THEN payload_loop(instructions, pos + 1,
                  Append(payload, pushnum_chunk(ins.code)))
         ELSE IF ins.kind = "PushBytes"
         THEN payload_loop(instructions, pos + 1, Append(payload, ins.bytes))
         ELSE [kind |-> "None", payload |-> payload, pos |-> pos + 1]

\* from_instructions
from_instructions(instructions, pos) ==
    LET a == accept(instructions, pos, Op(OP_IF)) IN
    IF ~a.accepted
    THEN [kind |-> "None", payload |-> <<>>, pos |-> a.pos]
    ELSE payload_loop(instructions, a.pos, <<>>)

\* instructions.next().transpose() is Ok(Some(_))
HasNext(instructions, pos) ==
    IF pos < Len(instructions) THEN instructions[pos + 1].kind # "Err" ELSE FALSE

\* (mutant: after a candidate that is not reported the scan goes on right
\* after the empty push)
from_script_body_rescan(instructions, pos, envelopes) ==
    IF instructions[pos + 1] = PushBytes(<<>>)
    THEN LET r == from_instructions(instructions, pos + 1) IN
         [pos |-> IF r.kind = "Some" THEN r.pos ELSE pos + 1,
          envelopes |-> IF r.kind = "Some" THEN Append(envelopes, r.payload)
                        ELSE envelopes,
          candidate |-> TRUE]
    ELSE [pos |-> pos + 1, envelopes |-> envelopes, candidate |-> FALSE]

\* from_script, lines 49-55: the body of the `while let` loop, run on the
\* instruction at pos + 1
from_script_body(instructions, pos, envelopes) ==
    IF instructions[pos + 1] = PushBytes(<<>>)
    THEN LET r == from_instructions(instructions, pos + 1) IN
         [pos |-> r.pos,
          envelopes |-> IF r.kind = "Some" THEN Append(envelopes, r.payload)
                        ELSE envelopes,
          candidate |-> TRUE]
    ELSE [pos |-> pos + 1, envelopes |-> envelopes, candidate |-> FALSE]

RECURSIVE from_script_loop(_, _, _)
from_script_loop(instructions, pos, envelopes) ==
    IF HasNext(instructions, pos)
    THEN LET b == from_script_body(instructions, pos, envelopes) IN
         from_script_loop(instructions, b.pos, b.envelopes)
    ELSE envelopes

\* from_script, on the instructions of the script
from_script(instructions) == from_script_loop(instructions, 0, <<>>)

\* ---- inputs ----
Fill(n, seed) == [i \in 1..n |-> (seed + i) % 256]

ChunkInputs ==
    {<<>>, <<0>>, <<1>>, <<129>>, <<1, 2, 3>>,
     Fill(MAX_SCRIPT_ELEMENT_SIZE, 0), Fill(MAX_SCRIPT_ELEMENT_SIZE + 1, 7),
     Fill(2 * MAX_SCRIPT_ELEMENT_SIZE + 1, 9)}

ScriptAlphabet ==
    {OP_FALSE, PushBytes(<<7>>), Op(OP_IF), Op(OP_ENDIF), Op(OP_PUSHNUM_1),
     Op(OP_DUP)}

\* scripts of every shape, and those among them that end in a parse error
RawScripts ==
    SeqsUpTo(ScriptAlphabet, MaxScriptLen)
    \cup {s \o <<ScriptError>> : s \in SeqsUpTo(ScriptAlphabet, MaxScriptLen - 1)}

\* scripts made of OP_FALSE OP_IF <pushes> OP_ENDIF groups and opcodes
GroupPayloads ==
    {<<>>, <<PushBytes(<<7>>)>>, <<OP_FALSE>>,
     <<Op(OP_PUSHNUM_NEG1), PushBytes(<<8, 9>>)>>,
     <<OP_FALSE, Op(OP_PUSHNUM_16)>>}

Segments ==
    {<<OP_FALSE, Op(OP_IF)>> \o p \o <<Op(OP_ENDIF)>> : p \in GroupPayloads}
    \cup {<<Op(c)>> : c \in {OP_DUP, OP_CHECKSIG, OP_IF}}

GroupScripts ==
    {ConcatAll(ss) : ss \in SeqsUpTo(Segments, MaxSegments)}

\* a group with each numeric push opcode between two data pushes, and with
\* the opcode alone (test_pushnum_opcodes)
PushNumScripts ==
    LET codes == {OP_PUSHNUM_NEG1} \cup (OP_PUSHNUM_1..OP_PUSHNUM_16) IN
    {<<OP_FALSE, Op(OP_IF), PushBytes(<<7>>), Op(c), PushBytes(<<8>>),
       Op(OP_ENDIF)>> : c \in codes}
    \cup {<<OP_FALSE, Op(OP_IF), Op(c), Op(OP_ENDIF)>> : c \in codes}

\* the script of test_script_without_envelopes
PlainScripts == {<<OP_FALSE, Op(OP_CHECKSIG)>>}

\* a group inside a candidate that fails, and a group after one
NestedScripts ==
    {<<OP_FALSE, Op(OP_IF), OP_FALSE, Op(OP_IF), PushBytes(<<7>>),
       Op(OP_ENDIF)>>,
     <<OP_FALSE, Op(OP_IF), PushBytes(<<8>>), OP_FALSE, Op(OP_IF),
       PushBytes(<<7>>), Op(OP_ENDIF), OP_FALSE, Op(OP_IF), Op(OP_ENDIF)>>,
     <<OP_FALSE, Op(OP_IF), Op(OP_DUP), OP_FALSE, Op(OP_IF), PushBytes(<<7>>),
       Op(OP_ENDIF)>>}

InitEnv ==
    /\ IdleMsg /\ IdleId /\ IdleTx /\ IdleTag
    /\ \/ /\ e_pc = "build"
          /\ e_chunks \in SeqsUpTo(ChunkInputs, MaxChunks)
          /\ e_script = <<>>
       \/ /\ e_pc = "scan"
          /\ e_chunks = <<>>
          /\ e_script \in RawScripts \cup GroupScripts \cup PushNumScripts
                           \cup PlainScripts \cup NestedScripts
    /\ e_built = FALSE
    /\ e_pos = 0
    /\ e_envelopes = <<>>
    /\ e_last = NoAttempt

\* append_to_builder(e_chunks, Builder::new()).into_script()
Build ==
    /\ e_pc = "build"
    /\ e_script' = append_to_builder(e_chunks, <<>>)
    /\ e_built' = TRUE
    /\ e_pc' = "scan"
    /\ UNCHANGED <<e_chunks, e_pos, e_envelopes, e_last>>
    /\ UNCHANGED <<msgVars, idVars, txVars, tagVars>>

\* from_script: one iteration of `while let Ok(Some(instruction))`
ScanInstr ==
    /\ e_pc = "scan"
    /\ HasNext(e_script, e_pos)
    /\ LET b == from_script_body(e_script, e_pos, e_envelopes) IN
       /\ e_pos' = b.pos
       /\ e_envelopes' = b.envelopes
       /\ e_last' = IF b.candidate
                    THEN [from |-> e_pos + 1, to |-> b.pos,
                          before |-> e_envelopes]
                    ELSE e_last
    /\ UNCHANGED <<e_pc, e_chunks, e_built, e_script>>
    /\ UNCHANGED <<msgVars, idVars, txVars, tagVars>>

\* from_script: the iterator is empty or yields an error, `envelopes` is
\* returned
ScanEnd ==
    /\ e_pc = "scan"
    /\ ~HasNext(e_script, e_pos)
    /\ e_pc' = "done"
    /\ UNCHANGED <<e_chunks, e_built, e_script, e_pos, e_envelopes, e_last>>
    /\ UNCHANGED <<msgVars, idVars, txVars, tagVars>>

NextEnv == Build \/ ScanInstr \/ ScanEnd

SpecEnv == InitEnv /\ [][NextEnv]_vars

(***************************************************************************)
(* lib.rs: Embedding::id, Display and FromStr for EmbeddingId.  A string   *)
(* is the sequence of its characters.  A Txid is its 32 bytes; it is shown *)
(* and parsed as 64 hex digits, last byte first.                           *)
(***************************************************************************)
None == <<>>
Some(x) == <<x>>

Legacy == "Legacy"
Tapscript == "Tapscript"

\* enum EmbeddingType
OpReturn == [variant |-> "OpReturn"]
TaprootAnnex == [variant |-> "TaprootAnnex"]
WitnessEnvelope(script_type) ==
    [variant |-> "WitnessEnvelope", script_type |-> script_type]
BareEnvelope == [variant |-> "BareEnvelope"]

\* enum EmbeddingLocation
LocOpReturn(output) == [variant |-> "OpReturn", output |-> output]
LocTaprootAnnex(input) == [variant |-> "TaprootAnnex", input |-> input]
LocWitnessEnvelope(input, index, pushes, script_type) ==
    [variant |-> "WitnessEnvelope", input |-> input, index |-> index,
     pushes |-> pushes, script_type |-> script_type]
LocBareEnvelope(output, index, pushes) ==
    [variant |-> "BareEnvelope", output |-> output, index |-> index,
     pushes |-> pushes]

\* EmbeddingLocation::to_type
to_type(location) ==
    CASE location.variant = "OpReturn" -> OpReturn
      [] location.variant = "BareEnvelope" -> BareEnvelope
      [] location.variant = "TaprootAnnex" -> TaprootAnnex
      [] location.variant = "WitnessEnvelope" ->
            WitnessEnvelope(location.script_type)

EmbeddingId(txid, embedding_type, index, sub_index) ==
    [txid |-> txid, embedding_type |-> embedding_type, index |-> index,
     sub_index |-> sub_index]

Embedding(bytes, txid, location) ==
    [bytes |-> bytes, txid |-> txid, location |-> location]

\* Embedding::id
\* an id that leaves out the index of the first envelope of a script
Embedding_id_first_absent(self) ==
    LET location == self.location
        pair == CASE location.variant = "OpReturn" ->
                        <<location.output, None>>
                  [] location.variant = "BareEnvelope" ->
                        <<location.output,
                          IF location.index = 0 THEN None
                          ELSE Some(location.index)>>
                  [] location.variant = "TaprootAnnex" ->
                        <<location.input, None>>
                  [] location.variant = "WitnessEnvelope" ->
                        <<location.input,
                          IF location.index = 0 THEN None
                          ELSE Some(location.index)>>
    IN EmbeddingId(self.txid, to_type(location), pair[1], pair[2])

Embedding_id(self) ==
    LET location == self.location
        pair == CASE location.variant = "OpReturn" ->
                        <<location.output, None>>
                  [] location.variant = "BareEnvelope" ->
                        <<location.output, Some(location.index)>>
                  [] location.variant = "TaprootAnnex" ->
                        <<location.input, None>>
                  [] location.variant = "WitnessEnvelope" ->
                        <<location.input, Some(location.index)>>
    IN EmbeddingId(self.txid, to_type(location), pair[1], pair[2])

\* ---- strings ----
Digits == <<"0", "1", "2", "3", "4", "5", "6", "7", "8", "9">>
HexLower == Digits \o <<"a", "b", "c", "d", "e", "f">>
HexUpper == Digits \o <<"A", "B", "C", "D", "E", "F">>

Reverse(s) == [i \in 1..Len(s) |-> s[Len(s) + 1 - i]]

\* the value of a digit of the table, -1 for a character that is not in it
DigitIn(table, c) ==
    IF \E k \in 1..Len(table) : table[k] = c
    THEN (CHOOSE k \in 1..Len(table) : table[k] = c) - 1
    ELSE -1

HexValue(c) ==
    IF DigitIn(HexLower, c) >= 0 THEN DigitIn(HexLower, c)
    ELSE DigitIn(HexUpper, c)

\* usize as Display
RECURSIVE usize_to_string(_)
usize_to_string(n) ==
    IF n < 10 THEN <<Digits[n + 1]>>
    ELSE usize_to_string(n \div 10) \o <<Digits[(n % 10) + 1]>>

\* str::parse::<usize>: an optional '+', then one decimal digit or more.
\* The strings of the model have few digits, none overflows a usize.
RECURSIVE digits_value(_, _)
digits_value(s, acc) ==
    IF s = <<>> THEN acc
    ELSE digits_value(Tail(s), 10 * acc + DigitIn(Digits, s[1]))

parse_usize(s) ==
    LET digits == IF s # <<>> /\ s[1] = "+" THEN Tail(s) ELSE s IN
    IF digits = <<>> \/ \E k \in 1..Len(digits) : DigitIn(Digits, digits[k]) < 0
    THEN [ok |-> FALSE, value |-> 0]
    ELSE [ok |-> TRUE, value |-> digits_value(digits, 0)]

\* Txid as Display
Txid_to_string(txid) ==
    LET shown == Reverse(txid) IN
    [k \in 1..(2 * Len(shown)) |->
        IF k % 2 = 1 THEN HexLower[(shown[(k + 1) \div 2] \div 16) + 1]
        ELSE HexLower[(shown[k \div 2] % 16) + 1]]

\* Txid::from_str
Txid_from_str(s) ==
    IF Len(s) # 64 \/ \E k \in 1..Len(s) : HexValue(s[k]) < 0
    THEN [ok |-> FALSE, txid |-> <<>>]
    ELSE [ok |-> TRUE,
          txid |-> Reverse([b \in 1..32 |->
                      16 * HexValue(s[2 * b - 1]) + HexValue(s[2 * b])])]

\* str::split(':'): the parts between the colons, one more than the colons
split_colon(s) ==
    LET colons == {k \in 1..Len(s) : s[k] = ":"}
        n == Cardinality(colons)
        at(i) == IF i = 0 THEN 0
                 ELSE IF i = n + 1 THEN Len(s) + 1
                 ELSE CHOOSE k \in colons :
                          Cardinality({j \in colons : j < k}) = i - 1
    IN [i \in 1..(n + 1) |-> SubSeq(s, at(i - 1) + 1, at(i) - 1)]

\* Display for EmbeddingId: the type code ...
type_code(embedding_type) ==
    CASE embedding_type.variant = "OpReturn" -> <<"r", "t">>
      [] embedding_type.variant = "TaprootAnnex" -> <<"t", "a">>
      [] embedding_type.variant = "BareEnvelope" -> <<"b", "e">>
      [] embedding_type.variant = "WitnessEnvelope" ->
            IF embedding_type.script_type = Legacy
            THEN <<"l", "e">> ELSE <<"t", "e">>

\* a Display that writes every sub_index an envelope id holds, 0 included
shows_sub_index_zero(self) ==
    /\ self.embedding_type.variant \in {"WitnessEnvelope", "BareEnvelope"}
    /\ self.sub_index # None

\* ... and whether the sub_index is written
shows_sub_index(self) ==
    /\ self.embedding_type.variant \in {"WitnessEnvelope", "BareEnvelope"}
    /\ self.sub_index # None
    /\ self.sub_index[1] > 0

\* Display for EmbeddingId
EmbeddingId_to_string(self) ==
    Txid_to_string(self.txid) \o <<":">> \o type_code(self.embedding_type)
    \o <<":">> \o usize_to_string(self.index)
    \o (IF shows_sub_index(self)
        THEN <<":">> \o usize_to_string(self.sub_index[1])
        ELSE <<>>)

\* FromStr for EmbeddingId, lines 389-396
parse_type(part) ==
    CASE part = <<"r", "t">> -> Some(OpReturn)
      [] part = <<"b", "e">> -> Some(BareEnvelope)
      [] part = <<"t", "a">> -> Some(TaprootAnnex)
      [] part = <<"l", "e">> -> Some(WitnessEnvelope(Legacy))
      [] part = <<"t", "e">> -> Some(WitnessEnvelope(Tapscript))
      [] OTHER -> None

IdOk(id) == [ok |-> TRUE, error |-> "", id |-> id]
IdErr(error) == [ok |-> FALSE, error |-> error, id |-> <<>>]

\* (mutant: a missing sub_index is left None for the envelope types too)
check_sub_index_no_default(embedding_type, sub_index) ==
    IF embedding_type.variant \in {"WitnessEnvelope", "BareEnvelope"}
    THEN [ok |-> TRUE, sub_index |-> sub_index]
    ELSE IF sub_index # None
    THEN [ok |-> FALSE, sub_index |-> sub_index]
    ELSE [ok |-> TRUE, sub_index |-> sub_index]

\* FromStr for EmbeddingId, lines 412-426
\* a check that lets a sub_index through for every type
check_sub_index_any_type(embedding_type, sub_index) ==
    [ok |-> TRUE,
     sub_index |-> IF /\ embedding_type.variant \in
                            {"WitnessEnvelope", "BareEnvelope"}
                      /\ sub_index = None
                   THEN Some(0) ELSE sub_index]

check_sub_index(embedding_type, sub_index) ==
    IF embedding_type.variant \in {"WitnessEnvelope", "BareEnvelope"}
    THEN [ok |-> TRUE,
          sub_index |-> IF sub_index = None THEN Some(0) ELSE sub_index]
    ELSE IF sub_index # None
    THEN [ok |-> FALSE, sub_index |-> sub_index]
    ELSE [ok |-> TRUE, sub_index |-> sub_index]

\* a from_str that looks at the type code before the txid
EmbeddingId_from_str_type_first(s) ==
    LET parts == split_colon(s)
        txid == Txid_from_str(parts[1])
        embedding_type == parse_type(parts[2])
        index == parse_usize(parts[3])
        sub == parse_usize(parts[4])
        sub_index == IF Len(parts) = 4 THEN Some(sub.value) ELSE None
        checked == check_sub_index(embedding_type[1], sub_index)
    IN
    IF Len(parts) < 3 \/ Len(parts) > 4 THEN IdErr("InvalidFormat")
    ELSE IF embedding_type = None THEN IdErr("InvalidType")
    ELSE IF ~txid.ok THEN IdErr("InvalidTxid")
    ELSE IF ~index.ok THEN IdErr("InvalidIndex")
    ELSE IF Len(parts) = 4 /\ ~sub.ok THEN IdErr("InvalidIndex")
    ELSE IF ~checked.ok THEN IdErr("InvalidFormat")
    ELSE IdOk(EmbeddingId(txid.txid, embedding_type[1], index.value,
                          checked.sub_index))

\* FromStr for EmbeddingId
EmbeddingId_from_str(s) ==
    LET parts == split_colon(s)
        txid == Txid_from_str(parts[1])
        embedding_type == parse_type(parts[2])
        index == parse_usize(parts[3])
        sub == parse_usize(parts[4])
        sub_index == IF Len(parts) = 4 THEN Some(sub.value) ELSE None
        checked == check_sub_index(embedding_type[1], sub_index)
    IN
    IF Len(parts) < 3 \/ Len(parts) > 4 THEN IdErr("InvalidFormat")
    ELSE IF ~txid.ok THEN IdErr("InvalidTxid")
    ELSE IF embedding_type = None THEN IdErr("InvalidType")
    ELSE IF ~index.ok THEN IdErr("InvalidIndex")
    ELSE IF Len(parts) = 4 /\ ~sub.ok THEN IdErr("InvalidIndex")
    ELSE IF ~checked.ok THEN IdErr("InvalidFormat")
    ELSE IdOk(EmbeddingId(txid.txid, embedding_type[1], index.value,
                          checked.sub_index))

\* ---- inputs ----
Txids == {[i \in 1..32 |-> i - 1], [i \in 1..32 |-> (250 + 7 * i) % 256]}

IdLocations ==
    {LocOpReturn(n) : n \in 0..MaxIndex}
    \cup {LocTaprootAnnex(n) : n \in 0..MaxIndex}
    \cup {LocBareEnvelope(n, k, <<>>) : n \in 0..MaxIndex, k \in 0..MaxIndex}
    \cup {LocWitnessEnvelope(n, k, <<>>, t) :
            n \in 0..MaxIndex, k \in 0..MaxIndex, t \in {Legacy, Tapscript}}

TxidStrings ==
    {Txid_to_string(t) : t \in Txids}
    \cup {[k \in 1..64 |-> IF k % 2 = 0 THEN "A" ELSE "b"],
          [k \in 1..64 |-> IF k = 5 THEN "g" ELSE "0"],
          [k \in 1..63 |-> "0"], <<>>}

CodeStrings ==
    {<<"r", "t">>, <<"b", "e">>, <<"t", "a">>, <<"l", "e">>, <<"t", "e">>,
     <<"R", "T">>, <<"x">>, <<>>}

NumberStrings ==
    {<<"0">>, <<"7">>, <<"1", "0">>, <<"0", "0", "3">>, <<"+", "4">>,
     <<"-", "1">>, <<"x">>, <<>>}

Join(parts) ==
    ConcatAll([k \in 1..Len(parts) |->
                 IF k = 1 THEN parts[k] ELSE <<":">> \o parts[k]])

RawStrings ==
    {Join(<<t, c, n>>) : t \in TxidStrings, c \in CodeStrings,
                         n \in NumberStrings}
    \cup {Join(<<t, c, n, m>>) : t \in TxidStrings, c \in CodeStrings,
                                 n \in NumberStrings, m \in NumberStrings}
    \cup {Join(<<t, c>>) : t \in TxidStrings, c \in CodeStrings}
    \cup {Join(<<t, c, <<"1">>, <<"2">>, <<"3">>>>) :
            t \in TxidStrings, c \in CodeStrings}

\* ids written field by field, as the crate itself can write them
LiteralIds ==
    {EmbeddingId(t, e, n, s) :
        t \in Txids,
        e \in {OpReturn, BareEnvelope, TaprootAnnex,
               WitnessEnvelope(Legacy), WitnessEnvelope(Tapscript)},
        n \in {0, 2, MaxIndex},
        s \in {None} \cup {Some(k) : k \in {0, 1, 3, MaxIndex}}}

InitId ==
    /\ IdleMsg /\ IdleEnv /\ IdleTx /\ IdleTag
    /\ \/ /\ i_pc = "embedding"
          /\ i_embedding \in {Embedding(<<>>, t, l) :
                                t \in Txids, l \in IdLocations}
          /\ i_raw = <<>>
          /\ i_id = <<>>
       \/ /\ i_pc = "raw"
          /\ i_embedding = <<>>
          /\ i_raw \in RawStrings
          /\ i_id = <<>>
       \/ /\ i_pc = "literal"
          /\ i_embedding = <<>>
          /\ i_raw = <<>>
          /\ i_id \in LiteralIds
    /\ i_string = <<>>
    /\ i_result = <<>>

\* i_embedding.id()
TakeId ==
    /\ i_pc = "embedding"
    /\ i_id' = Embedding_id(i_embedding)
    /\ i_pc' = "id"
    /\ UNCHANGED <<i_embedding, i_raw, i_string, i_result>>
    /\ UNCHANGED <<msgVars, envVars, txVars, tagVars>>

\* EmbeddingId::from_str(i_raw): an id, or an error
ParseRaw ==
    /\ i_pc = "raw"
    /\ i_result' = EmbeddingId_from_str(i_raw)
    /\ i_id' = IF i_result'.ok THEN i_result'.id ELSE i_id
    /\ i_pc' = IF i_result'.ok THEN "id" ELSE "done"
    /\ UNCHANGED <<i_embedding, i_raw, i_string>>
    /\ UNCHANGED <<msgVars, envVars, txVars, tagVars>>

\* i_id.to_string()
Display ==
    /\ i_pc \in {"id", "literal"}
    /\ i_string' = EmbeddingId_to_string(i_id)
    /\ i_pc' = IF i_pc = "id" THEN "string" ELSE "shown"
    /\ UNCHANGED <<i_embedding, i_raw, i_id, i_result>>
    /\ UNCHANGED <<msgVars, envVars, txVars, tagVars>>

\* EmbeddingId::from_str(&i_string)
FromStr ==
    /\ i_pc = "string"
    /\ i_result' = EmbeddingId_from_str(i_string)
    /\ i_pc' = "done"
    /\ UNCHANGED <<i_embedding, i_raw, i_id, i_string>>
    /\ UNCHANGED <<msgVars, envVars, txVars, tagVars>>

NextId == TakeId \/ ParseRaw \/ Display \/ FromStr

SpecId == InitId /\ [][NextId]_vars

(***************************************************************************)
(* lib.rs: Embedding::from_transaction.  Here a script is its bytes, as in *)
(* a transaction, and a witness is the sequence of its elements, each a    *)
(* byte sequence.  The rust-bitcoin accessors the scanner calls are        *)
(* modelled by what they compute on those bytes.                           *)
(***************************************************************************)
TAPROOT_ANNEX_DATA_TAG == 0
TAPROOT_ANNEX_PREFIX == 80
TAPROOT_LEAF_MASK == 254
TAPROOT_LEAF_TAPSCRIPT == 192
TAPROOT_CONTROL_BASE_SIZE == 33
OP_PUSHDATA1 == 76
OP_PUSHDATA2 == 77
OP_PUSHDATA4 == 78
OP_RETURN == 106

\* Builder::push_slice and Builder::push_opcode: the bytes of an instruction
instruction_bytes(ins) ==
    IF ins.kind = "Op" THEN <<ins.code>>
    ELSE LET n == Len(ins.bytes) IN
         IF n < OP_PUSHDATA1 THEN <<n>> \o ins.bytes
         ELSE IF n < 256 THEN <<OP_PUSHDATA1, n>> \o ins.bytes
         ELSE <<OP_PUSHDATA2, n % 256, n \div 256>> \o ins.bytes

\* Builder::into_bytes / Builder::into_script
into_bytes(builder) ==
    ConcatAll([i \in 1..Len(builder) |-> instruction_bytes(builder[i])])

\* Script::instructions: the pushes and opcodes of the bytes, ending in a
\* parse error where a push runs past the end of the script.  `header` is
\* the number of length bytes after the opcode, `n` the length of the data.
RECURSIVE instructions(_)
push_data(rest, header, n) ==
    IF Len(rest) < header + n THEN <<ScriptError>>
    ELSE <<PushBytes(SubSeq(rest, header + 1, header + n))>>
         \o instructions(SubSeq(rest, header + n + 1, Len(rest)))

instructions(bytes) ==
    IF bytes = <<>> THEN <<>>
    ELSE LET b == bytes[1]
             rest == Tail(bytes)
         IN
         IF b < OP_PUSHDATA1 THEN push_data(rest, 0, b)
         ELSE IF b = OP_PUSHDATA1
         THEN IF Len(rest) < 1 THEN <<ScriptError>>
              ELSE push_data(rest, 1, rest[1])
         ELSE IF b = OP_PUSHDATA2
         THEN IF Len(rest) < 2 THEN <<ScriptError>>
              ELSE push_data(rest, 2, rest[1] + 256 * rest[2])
         ELSE IF b = OP_PUSHDATA4
         THEN \* a length of 65536 or more runs past the end of any script here
              IF Len(rest) < 4 \/ rest[3] # 0 \/ rest[4] # 0
              THEN <<ScriptError>>
              ELSE push_data(rest, 4, rest[1] + 256 * rest[2])
         ELSE <<Op(b)>> \o instructions(rest)

\* Script::is_op_return
is_op_return(script) == IF script = <<>> THEN FALSE ELSE script[1] = OP_RETURN

\* Witness::taproot_annex: the last of two or more elements, when it begins
\* with TAPROOT_ANNEX_PREFIX
taproot_annex(witness) ==
    LET n == Len(witness) IN
    IF n >= 2 /\ witness[n] # <<>> /\ witness[n][1] = TAPROOT_ANNEX_PREFIX
    THEN Some(witness[n])
    ELSE None

\* LeafVersion::from_consensus: None where it is an error
LeafVersion_from_consensus(version) ==
    IF version = TAPROOT_LEAF_TAPSCRIPT THEN Some("TapScript")
    ELSE IF version = TAPROOT_ANNEX_PREFIX THEN None
    ELSE IF version % 2 = 1 THEN None
    ELSE Some("Future")

\* Witness::taproot_leaf_script: with the annex set aside, the last element
\* is the control block and the one before it the leaf script
taproot_leaf_script(witness) ==
    LET n == Len(witness) - (IF taproot_annex(witness) # None THEN 1 ELSE 0) IN
    IF n < 2 THEN None
    ELSE LET control_block == witness[n]
             version == LeafVersion_from_consensus(
                            control_block[1] - (control_block[1] % 2))
         IN
         IF Len(control_block) < TAPROOT_CONTROL_BASE_SIZE THEN None
         ELSE IF version = None THEN None
         ELSE Some([version |-> version[1], script |-> witness[n - 1]])

\* Witness::witness_script: the last element
witness_script(witness) ==
    IF witness = <<>> THEN None ELSE Some(witness[Len(witness)])

\* (mutant: one push is recorded for the whole envelope)
envelope_pushes_total(envelope) == <<Len(ConcatAll(envelope))>>

\* from_transaction: the inner loops that make `bytes` and `pushes` of an
\* envelope
envelope_bytes(envelope) == ConcatAll(envelope)
envelope_pushes(envelope) == [i \in 1..Len(envelope) |-> Len(envelope[i])]

\* (mutant: the envelopes of an output are numbered by the output)
bare_envelopes_output_index(txid, script_pubkey, output) ==
    LET envelopes == from_script(instructions(script_pubkey)) IN
    [k \in 1..Len(envelopes) |->
        Embedding(envelope_bytes(envelopes[k]), txid,
                  LocBareEnvelope(output, output,
                                  envelope_pushes(envelopes[k])))]

\* from_transaction, lines 190-214: the embeddings of the envelopes of an
\* output script
bare_envelopes(txid, script_pubkey, output) ==
    LET envelopes == from_script(instructions(script_pubkey)) IN
    [k \in 1..Len(envelopes) |->
        Embedding(envelope_bytes(envelopes[k]), txid,
                  LocBareEnvelope(output, k - 1,
                                  envelope_pushes(envelopes[k])))]

\* (mutant: an OP_RETURN script is scanned for envelopes too)
output_embeddings_scan_all(txid, script_pubkey, output) ==
    (IF is_op_return(script_pubkey)
     THEN <<Embedding(Tail(script_pubkey), txid, LocOpReturn(output))>>
     ELSE <<>>)
    \o bare_envelopes(txid, script_pubkey, output)

\* from_transaction, lines 181-215: the body of the loop over the outputs
output_embeddings(txid, script_pubkey, output) ==
    IF is_op_return(script_pubkey)
    THEN <<Embedding(Tail(script_pubkey), txid, LocOpReturn(output))>>
    ELSE bare_envelopes(txid, script_pubkey, output)

\* (mutant: the witness script is taken although there is an annex)
witness_script_and_type_with_annex(witness) ==
    LET leaf_script == taproot_leaf_script(witness)
        tapscript == IF leaf_script # None
                     THEN leaf_script[1].version = "TapScript"
                     ELSE FALSE
    IN
    IF tapscript
    THEN Some([script |-> leaf_script[1].script, script_type |-> Tapscript])
    ELSE IF Len(witness) > 1 /\ witness_script(witness) # None
    THEN Some([script |-> witness_script(witness)[1], script_type |-> Legacy])
    ELSE None

\* from_transaction, lines 219-238: `script` and `script_type` of an input
witness_script_and_type(witness) ==
    LET leaf_script == taproot_leaf_script(witness)
        tapscript == IF leaf_script # None
                     THEN leaf_script[1].version = "TapScript"
                     ELSE FALSE
    IN
    IF tapscript
    THEN Some([script |-> leaf_script[1].script, script_type |-> Tapscript])
    ELSE IF taproot_annex(witness) = None /\ Len(witness) > 1
            /\ witness_script(witness) # None
    THEN Some([script |-> witness_script(witness)[1], script_type |-> Legacy])
    ELSE None

\* (mutant: an annex of two bytes is taken too)
annex_embeddings_two_bytes(txid, witness, input) ==
    LET annex == taproot_annex(witness) IN
    IF annex = None THEN <<>>
    ELSE IF Len(annex[1]) >= 2 /\ annex[1][2] = TAPROOT_ANNEX_DATA_TAG
    THEN <<Embedding(SubSeq(annex[1], 3, Len(annex[1])), txid,
                     LocTaprootAnnex(input))>>
    ELSE <<>>

\* from_transaction, lines 270-282: the body of the loop over the annexes
annex_embeddings(txid, witness, input) ==
    LET annex == taproot_annex(witness) IN
    IF annex = None THEN <<>>
    ELSE IF Len(annex[1]) > 2 /\ annex[1][2] = TAPROOT_ANNEX_DATA_TAG
    THEN <<Embedding(SubSeq(annex[1], 3, Len(annex[1])), txid,
                     LocTaprootAnnex(input))>>
    ELSE <<>>

\* from_transaction, lines 218-267: the body of the loop over the witnesses
witness_envelopes(txid, witness, input) ==
    LET chosen == witness_script_and_type(witness) IN
    IF chosen = None THEN <<>>
    ELSE LET envelopes == from_script(instructions(chosen[1].script)) IN
         [k \in 1..Len(envelopes) |->
             Embedding(envelope_bytes(envelopes[k]), txid,
                       LocWitnessEnvelope(input, k - 1,
                                          envelope_pushes(envelopes[k]),
                                          chosen[1].script_type))]

\* (mutant: the annex of an input is taken in the loop over the witnesses)
witness_embeddings_then_annex(txid, witness, input) ==
    witness_envelopes(txid, witness, input)
    \o annex_embeddings(txid, witness, input)

witness_embeddings(txid, witness, input) ==
    witness_envelopes(txid, witness, input)

\* ---- inputs ----
MaxOutputs == 2     \* outputs of a transaction
MaxInputs == 2      \* inputs of a transaction

ScriptOne == into_bytes(append_bytes_to_builder(<<1, 2>>, <<>>))
ScriptTwo ==
    into_bytes(append_to_builder(<<<<3>>, <<4, 5>>>>,
                   append_bytes_to_builder(<<6>>, <<Op(OP_DUP)>>)))

\* OP_RETURN "Hi", OP_RETURN before an envelope, envelopes, no embedding
OutputScripts ==
    {<<OP_RETURN, 2, 72, 105>>, <<OP_RETURN>> \o ScriptOne, ScriptOne,
     ScriptTwo, <<OP_DUP>>}

ControlBlock(first) == [i \in 1..TAPROOT_CONTROL_BASE_SIZE |-> first]
AnnexData == <<TAPROOT_ANNEX_PREFIX, TAPROOT_ANNEX_DATA_TAG, 72, 105>>

\* an annex whose bytes after the prefix are OP_FALSE OP_IF <7> OP_ENDIF
AnnexEnvelope ==
    <<TAPROOT_ANNEX_PREFIX, TAPROOT_ANNEX_DATA_TAG, OP_IF, 1, 7, OP_ENDIF>>

Witnesses ==
    {<<>>,
     <<<<1>>, ScriptOne>>,                                  \* P2WSH
     <<ScriptTwo, ControlBlock(TAPROOT_LEAF_TAPSCRIPT)>>,   \* tapscript
     <<ScriptOne, ControlBlock(TAPROOT_LEAF_TAPSCRIPT + 2)>>, \* another leaf version
     <<<<1>>, AnnexData>>,                                  \* key spend, annex
     <<<<1>>, <<TAPROOT_ANNEX_PREFIX, 1, 72>>>>,            \* annex, other tag
     <<<<1>>, <<TAPROOT_ANNEX_PREFIX, TAPROOT_ANNEX_DATA_TAG>>>>, \* no data
     <<<<1>>, AnnexEnvelope>>,                  \* annex that reads as a script
     <<ScriptOne>>,                             \* one element
     <<ScriptOne, ControlBlock(TAPROOT_LEAF_TAPSCRIPT), AnnexData>>}

\* compute_txid is a hash of the transaction: the model draws it
Transactions ==
    [txid : Txids,
     output : SeqsUpTo(OutputScripts, MaxOutputs),
     input : SeqsUpTo(Witnesses, MaxInputs)]

InitTx ==
    /\ IdleMsg /\ IdleEnv /\ IdleId /\ IdleTag
    /\ t_pc = "outputs"
    /\ t_tx \in Transactions
    /\ t_i = 0
    /\ t_embeddings = <<>>

\* one iteration of `for (output, txout) in tx.output.iter().enumerate()`
ScanOutput ==
    /\ t_pc = "outputs"
    /\ t_i < Len(t_tx.output)
    /\ t_embeddings' = t_embeddings
           \o output_embeddings(t_tx.txid, t_tx.output[t_i + 1], t_i)
    /\ t_i' = t_i + 1
    /\ UNCHANGED <<t_pc, t_tx>>
    /\ UNCHANGED <<msgVars, envVars, idVars, tagVars>>

\* the loop over the outputs ends, the loop over the witnesses begins
OutputsEnd ==
    /\ t_pc = "outputs"
    /\ t_i = Len(t_tx.output)
    /\ t_pc' = "witness"
    /\ t_i' = 0
    /\ UNCHANGED <<t_tx, t_embeddings>>
    /\ UNCHANGED <<msgVars, envVars, idVars, tagVars>>

\* one iteration of the first `for (input, txin) in tx.input.iter().enumerate()`
ScanWitness ==
    /\ t_pc = "witness"
    /\ t_i < Len(t_tx.input)
    /\ t_embeddings' = t_embeddings
           \o witness_embeddings(t_tx.txid, t_tx.input[t_i + 1], t_i)
    /\ t_i' = t_i + 1
    /\ UNCHANGED <<t_pc, t_tx>>
    /\ UNCHANGED <<msgVars, envVars, idVars, tagVars>>

\* the loop over the witnesses ends, the loop over the annexes begins
WitnessesEnd ==
    /\ t_pc = "witness"
    /\ t_i = Len(t_tx.input)
    /\ t_pc' = "annex"
    /\ t_i' = 0
    /\ UNCHANGED <<t_tx, t_embeddings>>
    /\ UNCHANGED <<msgVars, envVars, idVars, tagVars>>

\* one iteration of the second loop over the inputs
ScanAnnex ==
    /\ t_pc = "annex"
    /\ t_i < Len(t_tx.input)
    /\ t_embeddings' = t_embeddings
           \o annex_embeddings(t_tx.txid, t_tx.input[t_i + 1], t_i)
    /\ t_i' = t_i + 1
    /\ UNCHANGED <<t_pc, t_tx>>
    /\ UNCHANGED <<msgVars, envVars, idVars, tagVars>>

\* the loop over the annexes ends, `embeddings` is returned
AnnexesEnd ==
    /\ t_pc = "annex"
    /\ t_i = Len(t_tx.input)
    /\ t_pc' = "done"
    /\ UNCHANGED <<t_tx, t_i, t_embeddings>>
    /\ UNCHANGED <<msgVars, envVars, idVars, tagVars>>

NextTx ==
    ScanOutput \/ OutputsEnd \/ ScanWitness \/ WitnessesEnd \/ ScanAnnex
    \/ AnnexesEnd

SpecTx == InitTx /\ [][NextTx]_vars

(***************************************************************************)
(* tagged_data.rs: the framing that writes a length for every chunk, 0 for *)
(* the last one.  The file lies beside message.rs; lib.rs does not declare *)
(* it as a module.                                                         *)
(***************************************************************************)
RESERVED == <<>>    \* tags::RESERVED, the tag 0

Tagged(tag, bytes) == [tag |-> tag, bytes |-> bytes]

\* TaggedData::new
TaggedData_new(tag, bytes) ==
    IF tag = RESERVED
    THEN [ok |-> FALSE, error |-> "InvalidTag", chunk |-> Tagged(<<>>, <<>>)]
    ELSE IF GtU32Max(FromNat(Len(bytes)))
    THEN [ok |-> FALSE, error |-> "InvalidByteCount",
          chunk |-> Tagged(<<>>, <<>>)]
    ELSE [ok |-> TRUE, error |-> "", chunk |-> Tagged(tag, bytes)]

\* TaggedData::encode: what the loop body writes for one chunk, for the tag
tagged_encode_tag(chunk, last_tag) ==
    IF chunk.tag = last_tag THEN <<0>> ELSE varint_encode(chunk.tag)

\* ... and for the length
tagged_encode_length(chunk, is_last) ==
    IF is_last THEN varint_encode(<<>>)
    ELSE varint_encode(FromNat(Len(chunk.bytes)))

\* TaggedData::encode: the loop from chunk i on
RECURSIVE tagged_encode_loop(_, _, _, _)
tagged_encode_loop(chunks, i, last_tag, bytes) ==
    IF i > Len(chunks)
    THEN bytes
    ELSE LET chunk == chunks[i] IN
         tagged_encode_loop(chunks, i + 1,
             IF chunk.tag = last_tag THEN last_tag ELSE chunk.tag,
             bytes \o tagged_encode_tag(chunk, last_tag)
                   \o tagged_encode_length(chunk, i = Len(chunks))
                   \o chunk.bytes)

TaggedData_encode(chunks) == tagged_encode_loop(chunks, 1, <<>>, <<>>)

\* TaggedData::decode, lines 125-131: the length of the chunk for the length
\* varint n, `rest` bytes being left after it; -1 stands for a length that
\* exceeds every slice
tagged_decode_length(n, rest) ==
    IF n = <<>>
    THEN [ok |-> TRUE, length |-> rest]
    ELSE IF GtU32Max(n)
    THEN [ok |-> FALSE, length |-> 0]
    ELSE [ok |-> TRUE, length |-> IF Len(n) > 4 THEN -1 ELSE ToNat(n)]

\* One iteration of the while loop of TaggedData::decode
tagged_decode_iteration(bytes, index, last_tag, chunks) ==
    LET v == varint_decode(SubSeq(bytes, index + 1, Len(bytes)))
        index1 == index + v.size
        tag == IF v.value = RESERVED THEN last_tag ELSE v.value
        nv == varint_decode(SubSeq(bytes, index1 + 1, Len(bytes)))
        index2 == index1 + nv.size
        dl == tagged_decode_length(nv.value, Len(bytes) - index2)
        length == dl.length
        stop(error) ==
            [exit |-> "return", error |-> error, index |-> index,
             last_tag |-> last_tag, chunks |-> chunks]
    IN
    IF ~v.ok THEN stop("InvalidVarInt")
    ELSE IF v.value = last_tag THEN stop("InvalidTag")
    ELSE IF index1 >= Len(bytes) THEN stop("MissingBytes")
    ELSE IF ~nv.ok THEN stop("InvalidVarInt")
    ELSE IF ~dl.ok THEN stop("InvalidByteCount")
    ELSE IF length < 0 \/ index2 + length > Len(bytes)
    THEN stop("MissingBytes")
    ELSE IF nv.value # <<>> /\ index2 + length = Len(bytes)
    THEN stop("InvalidFinalSizeByte")
    ELSE [exit |-> "next", error |-> "", index |-> index2 + length,
          last_tag |-> tag,
          chunks |-> Append(chunks,
                        Tagged(tag, SubSeq(bytes, index2 + 1, index2 + length)))]

TagOk(chunks) == [ok |-> TRUE, error |-> "", chunks |-> chunks]
TagErr(error) == [ok |-> FALSE, error |-> error, chunks |-> <<>>]
TagNoResult == [ok |-> FALSE, error |-> "pending", chunks |-> <<>>]

\* ---- inputs ----
TaggedTags == {FromNat(1), FromNat(2), FromNat(300)}

TaggedChunks ==
    {TaggedData_new(t, b).chunk : t \in TaggedTags, b \in Bodies}

InitTag ==
    /\ IdleMsg /\ IdleEnv /\ IdleId /\ IdleTx
    /\ \/ /\ g_pc = "encode"
          /\ g_input \in SeqsUpTo(TaggedChunks, MaxTagged)
          /\ g_bytes = <<>>
       \/ /\ g_pc = "decode"
          /\ g_input = <<>>
          /\ g_bytes \in SeqsUpTo(RawBytes, MaxRawLen) \cup WideInputs
    /\ g_encoded = FALSE
    /\ g_index = 0
    /\ g_last_tag = <<>>
    /\ g_chunks = <<>>
    /\ g_result = TagNoResult

\* TaggedData::encode(g_input), its output handed to TaggedData::decode
TagEncode ==
    /\ g_pc = "encode"
    /\ g_bytes' = TaggedData_encode(g_input)
    /\ g_encoded' = TRUE
    /\ g_pc' = "decode"
    /\ UNCHANGED <<g_input, g_index, g_last_tag, g_chunks, g_result>>
    /\ UNCHANGED <<msgVars, envVars, idVars, txVars>>

\* TaggedData::decode: one iteration of `while index < bytes.len()`
TagDecodeIter ==
    /\ g_pc = "decode"
    /\ g_index < Len(g_bytes)
    /\ LET r == tagged_decode_iteration(g_bytes, g_index, g_last_tag,
                                        g_chunks) IN
       /\ g_index' = r.index
       /\ g_last_tag' = r.last_tag
       /\ g_chunks' = r.chunks
       /\ g_pc' = IF r.exit = "next" THEN "decode" ELSE "done"
       /\ g_result' = IF r.exit = "return" THEN TagErr(r.error) ELSE g_result
    /\ UNCHANGED <<g_input, g_encoded, g_bytes>>
    /\ UNCHANGED <<msgVars, envVars, idVars, txVars>>

\* TaggedData::decode: the loop condition fails, Ok(chunks)
TagDecodeExit ==
    /\ g_pc = "decode"
    /\ g_index >= Len(g_bytes)
    /\ g_result' = TagOk(g_chunks)
    /\ g_pc' = "done"
    /\ UNCHANGED <<g_input, g_encoded, g_bytes, g_index, g_last_tag, g_chunks>>
    /\ UNCHANGED <<msgVars, envVars, idVars, txVars>>

NextTag == TagEncode \/ TagDecodeIter \/ TagDecodeExit

SpecTag == InitTag /\ [][NextTag]_vars

(***************************************************************************)
(* Claims about the tagged message framing, checked under SpecMsg.         *)
(***************************************************************************)
Decoded == m_pc = "done"

\* C1: for every sequence of records built with Message::new,
\* Message::decode(Message::encode(records)) succeeds and returns exactly the
\* same sequence of (tag, body) pairs.
C1_RoundTrip == (Decoded /\ m_encoded) => m_result = Ok(m_input)

\* C5: Message::encode writes, for each record in order, the single byte 1
\* (last) or 0 (not last) when the record's tag equals the tag before it, and
\* otherwise varint(2*tag + last); then varint(body length) only if the record
\* is not the last; then the body.  The tag before the first record is 0, so
\* the final record has no length field, and [(1,[1,2]),(1,[3,4]),(2,[5,6])]
\* encodes to [2,2,1,2,0,2,3,4,5,5,6].
C5_Record(i) ==
    LET rec == m_input[i]
        last == IF i = Len(m_input) THEN 1 ELSE 0
        before == IF i = 1 THEN <<>> ELSE m_input[i - 1].tag
    IN (IF rec.tag = before
        THEN <<last>>
        ELSE varint_encode(DoublePlus(rec.tag, last)))
       \o (IF last = 0 THEN varint_encode(FromNat(Len(rec.body))) ELSE <<>>)
       \o rec.body

C5_Example ==
    <<Msg(FromNat(1), <<1, 2>>), Msg(FromNat(1), <<3, 4>>),
      Msg(FromNat(2), <<5, 6>>)>>

C5_EncodeLayout ==
    m_encoded =>
        /\ m_bytes = ConcatAll([i \in 1..Len(m_input) |-> C5_Record(i)])
        /\ m_input = C5_Example => m_bytes = <<2, 2, 1, 2, 0, 2, 3, 4, 5, 5, 6>>
        /\ m_input # <<>> =>
             LET rec == m_input[Len(m_input)]
                 head == SubSeq(m_bytes, 1, Len(m_bytes) - Len(rec.body))
             IN /\ SubSeq(m_bytes, Len(head) + 1, Len(m_bytes)) = rec.body
                /\ head # <<>> /\ head[Len(head)] < 128

C5_Witness == m_encoded /\ m_input = C5_Example

\* C8: the length varint n read for a non-terminal record is the exact body
\* length of that record; n = 0 gives an empty body and decoding goes on with
\* the next record at the following byte.
C8_ExactLength ==
    (m_iter.pushed /\ m_iter.read_n) =>
        /\ Len(m_messages[Len(m_messages)].body) = ToNat(m_iter.n)
        /\ m_index = m_iter.body_at + ToNat(m_iter.n)

\* The first record of a hand-made input carries the sentinel tag 0: the
\* first varint has the value 0 or 1.
C9_SentinelFirst ==
    /\ ~m_encoded
    /\ m_bytes # <<>>
    /\ varint_decode(m_bytes).ok
    /\ Half(varint_decode(m_bytes).value) = <<>>

\* C9 (as stated): Message::decode accepts an input whose very first record
\* uses the sentinel tag 0: it is decoded as a record with tag 0 and is not
\* reported as an error.
C9_SentinelFirstAccepted ==
    (Decoded /\ C9_SentinelFirst) =>
        /\ m_result.ok
        /\ m_result.messages # <<>>
        /\ m_result.messages[1].tag = <<>>

\* C9 (amended): Message::decode rejects an input whose very first record
\* uses the sentinel tag 0 (first varint value 0 or 1) with InvalidTag, and
\* no decoded record ever has the tag 0.
C9_SentinelFirstRejected ==
    /\ (Decoded /\ C9_SentinelFirst) => m_result = Err("InvalidTag")
    /\ \A i \in 1..Len(m_messages) : m_messages[i].tag # <<>>

C9_Witness ==
    Decoded /\ C9_SentinelFirst /\ m_bytes[1] = 1 /\ Len(m_bytes) > 1
    /\ m_result = Err("InvalidTag")

\* C10: Message::decode fails with InvalidTag whenever a record's tag varint
\* carries an explicit non-zero tag equal to the tag of the record before it;
\* a tag is repeated only through the sentinel 0, which decodes to the tag of
\* the record before it.
C10_RepeatOnlyBySentinel ==
    LET k == Len(m_messages)
        t == Half(m_iter.value)
    IN /\ (m_iter.pushed /\ k >= 2 /\ t # <<>>) => t # m_messages[k - 1].tag
       /\ (m_iter.pushed /\ k >= 2 /\ t = <<>>) =>
              m_messages[k].tag = m_messages[k - 1].tag
       /\ (Decoded /\ ~m_iter.pushed /\ k >= 1 /\ t # <<>>
             /\ t = m_messages[k].tag) => m_result = Err("InvalidTag")

C10_Witness ==
    /\ Decoded /\ ~m_iter.pushed /\ Len(m_messages) >= 1
    /\ Half(m_iter.value) = m_messages[Len(m_messages)].tag
    /\ m_result = Err("InvalidTag")

\* The record of the last loop iteration of Message::decode, read off the
\* input: a loop iteration has run, ...
Iterated == m_pc \in {"decode", "done"} /\ (m_iter # NoIter \/ (Decoded /\ ~m_result.ok))

\* ... the bytes from `from` on are an unfinished varint, ...
Unfinished(from) ==
    /\ from < Len(m_bytes)
    /\ \A k \in (from + 1)..Len(m_bytes) : m_bytes[k] >= 128

\* ... the tag varint of the record and where it ends, ...
RecTag == varint_decode(SubSeq(m_bytes, m_iter.start + 1, Len(m_bytes)))
RecTagEnd == m_iter.start + RecTag.size

\* ... the tag of the record before it (0 when there is none), ...
RecTagBefore ==
    LET k == IF m_iter.pushed THEN Len(m_messages) - 1 ELSE Len(m_messages)
    IN IF k = 0 THEN <<>> ELSE m_messages[k].tag

\* ... the record is non-terminal and its tag is accepted, ...
RecNonTerminal ==
    /\ Iterated
    /\ ~Unfinished(m_iter.start)
    /\ ~IsOdd(RecTag.value)
    /\ Half(RecTag.value) # RecTagBefore

\* ... its length varint, where the body begins, ...
RecLength == varint_decode(SubSeq(m_bytes, RecTagEnd + 1, Len(m_bytes)))
RecBodyAt == RecTagEnd + RecLength.size

\* ... it declares a length n with 1 <= n <= 2^32 - 1, ...
RecDeclares ==
    /\ RecNonTerminal
    /\ RecTagEnd < Len(m_bytes)
    /\ ~Unfinished(RecTagEnd)
    /\ RecLength.value # <<>>
    /\ ~GtU32Max(RecLength.value)

\* ... and where the declared body ends (past the end of every input of the
\* model for an n of 2^28 or more).
RecBodyEnd ==
    IF Len(RecLength.value) > 4 THEN RecBodyAt + Len(m_bytes) + 1
    ELSE RecBodyAt + ToNat(RecLength.value)

\* C11: Message::decode fails with InvalidFinalSizeByte exactly when a
\* non-terminal record declares a length n > 0 and its body ends exactly at
\* the end of the input, as in [2,3,1,2,3]; a non-terminal record whose body
\* ends before the end of the input is accepted.
C11_FinalSizeByte ==
    /\ m_result = Err("InvalidFinalSizeByte")
           <=> (RecDeclares /\ RecBodyEnd = Len(m_bytes))
    /\ (RecDeclares /\ RecBodyEnd < Len(m_bytes)) =>
           /\ m_iter.pushed
           /\ m_messages[Len(m_messages)].body =
                  SubSeq(m_bytes, RecBodyAt + 1, RecBodyEnd)
           /\ m_index = RecBodyEnd
           /\ m_result.ok \/ m_pc = "decode"
    /\ (Decoded /\ m_bytes = <<2, 3, 1, 2, 3>>) =>
           m_result = Err("InvalidFinalSizeByte")

C11_Witness ==
    /\ Decoded /\ m_bytes = <<2, 3, 1, 2, 3>>
    /\ RecDeclares /\ RecBodyEnd = Len(m_bytes)
    /\ m_result = Err("InvalidFinalSizeByte")

C12_WitnessNoLength ==
    /\ Decoded /\ RecNonTerminal /\ RecTagEnd = Len(m_bytes)
    /\ m_messages # <<>>
    /\ m_result = Err("MissingBytes")

Made == m_made # <<>>

\* C15: Message::new returns InvalidTag for the tag 0 and for every tag above
\* 2^127-1, InvalidByteCount for a body of more than 2^32-1 bytes (the tag is
\* checked first), and otherwise a Message with exactly the given tag and
\* body; so the value 2*tag + 1 that Message::encode computes never exceeds
\* 2^128-1 for a Message that can be made, the tag 2^127-1 included.
C15_TagTooLarge ==
    Len(m_new.tag) > 19 \/ (Len(m_new.tag) = 19 /\ m_new.tag[19] >= 2)

C15_BodyTooLong ==
    Len(m_new.len) > 5 \/ (Len(m_new.len) = 5 /\ m_new.len[5] >= 16)

C15_NewChecks ==
    /\ Made =>
          IF m_new.tag = <<>> \/ C15_TagTooLarge
          THEN ~m_made.ok /\ m_made.error = "InvalidTag"
          ELSE IF C15_BodyTooLong
          THEN ~m_made.ok /\ m_made.error = "InvalidByteCount"
          ELSE /\ m_made.ok
               /\ m_made.message.tag = m_new.tag
               /\ m_made.message.body = m_new.body
    /\ \A i \in 1..Len(m_input) :
          LET value == DoublePlus(m_input[i].tag, 1) IN
          Len(value) < 19 \/ (Len(value) = 19 /\ value[19] <= 3)
    /\ (m_encoded /\ Len(m_input) = 1) =>
          varint_decode(m_bytes).value =
              DoublePlus(m_input[1].tag, 1)

C15_Witness ==
    /\ Made /\ Decoded
    /\ m_new.tag = TAG_MAX /\ m_new.body # <<>>
    /\ DoublePlus(m_new.tag, 1) = [i \in 1..19 |-> IF i < 19 THEN 127 ELSE 3]
    /\ m_result = Ok(<<Msg(m_new.tag, m_new.body)>>)

C15_WitnessByteCount ==
    /\ Made /\ m_new.tag = TAG_MAX /\ m_new.len = U32_OVER
    /\ m_made.error = "InvalidByteCount"


(***************************************************************************)
(* Claims about the envelope codec, checked under SpecEnv.                 *)
(***************************************************************************)
Scanned == e_pc = "done"

Min(a, b) == IF a <= b THEN a ELSE b

\* C2 (as stated): from_script of the script built by
\* append_to_builder(chunks, empty builder) returns exactly one envelope,
\* equal to chunks, chunk for chunk (zero chunks, zero-length chunks and
\* chunks longer than 520 bytes included).
C2_BuiltRoundTripExact == (Scanned /\ e_built) => e_envelopes = <<e_chunks>>

\* the consecutive pieces of at most 520 bytes of one chunk, none for an
\* empty chunk
C2_Pieces(chunk) ==
    [j \in 1..((Len(chunk) + 519) \div 520) |->
        SubSeq(chunk, 520 * (j - 1) + 1, Min(520 * j, Len(chunk)))]

\* C2 (amended): from_script of the script built by
\* append_to_builder(chunks, empty builder) returns exactly one envelope; its
\* chunks are, in order, the consecutive pieces of at most 520 bytes of each
\* chunk (an empty chunk gives no piece).  So the bytes of the envelope are
\* the bytes of chunks, and the envelope equals chunks when every chunk has
\* 1 to 520 bytes (or there is no chunk).
C2_BuiltRoundTripPieces ==
    (Scanned /\ e_built) =>
        /\ Len(e_envelopes) = 1
        /\ e_envelopes[1] =
               ConcatAll([i \in 1..Len(e_chunks) |-> C2_Pieces(e_chunks[i])])
        /\ ConcatAll(e_envelopes[1]) = ConcatAll(e_chunks)
        /\ (\A i \in 1..Len(e_chunks) :
                1 <= Len(e_chunks[i]) /\ Len(e_chunks[i]) <= 520)
             => e_envelopes[1] = e_chunks

C2_Witness ==
    /\ Scanned /\ e_built
    /\ \E i \in 1..Len(e_chunks) : Len(e_chunks[i]) > 520
    /\ \E i \in 1..Len(e_chunks) : Len(e_chunks[i]) = 1
    /\ Len(e_envelopes) = 1 /\ Len(e_envelopes[1]) > Len(e_chunks)

\* what an instruction inside OP_IF .. OP_ENDIF stands for
IsChunk(ins) ==
    \/ ins.kind = "PushBytes"
    \/ ins.kind = "Op" /\ (ins.code = 79 \/ (81 <= ins.code /\ ins.code <= 96))

ChunkOf(ins) ==
    IF ins.kind = "PushBytes" THEN ins.bytes
    ELSE IF ins.code = 79 THEN <<129>> ELSE <<ins.code - 80>>

\* instructions s..t of the script are a whole, well-formed group
GroupAt(s, t) ==
    /\ 1 <= s /\ s + 2 <= t /\ t <= Len(e_script)
    /\ e_script[s] = PushBytes(<<>>)
    /\ e_script[s + 1] = Op(99)
    /\ e_script[t] = Op(104)
    /\ \A j \in (s + 2)..(t - 1) : IsChunk(e_script[j])

Groups ==
    {g \in (1..Len(e_script)) \X (1..Len(e_script)) : GroupAt(g[1], g[2])}

GroupChunks(g) ==
    [j \in 1..(g[2] - g[1] - 2) |-> ChunkOf(e_script[g[1] + 1 + j])]

\* C6: when an envelope candidate (empty push followed by OP_IF) meets,
\* before its OP_ENDIF, an instruction that is neither a data push nor
\* OP_PUSHNUM_NEG1/OP_PUSHNUM_1..16, or the end of the script, from_script
\* reports no envelope for it: the result is what it was before the
\* candidate, and every envelope of the result is a whole group of the script.
C6_CandidateFailed ==
    /\ e_last.from > 0
    /\ e_last.from < Len(e_script)
    /\ e_script[e_last.from + 1] = Op(99)
    /\ \A t \in (e_last.from + 2)..e_last.to : e_script[t] # Op(104)
    /\ \/ e_last.to = Len(e_script)
       \/ ~IsChunk(e_script[e_last.to])

C6_FailedCandidateDiscarded ==
    /\ C6_CandidateFailed => e_envelopes = e_last.before
    /\ \A i \in 1..Len(e_envelopes) :
          \E g \in Groups : GroupChunks(g) = e_envelopes[i]

C6_Witness ==
    /\ Scanned /\ C6_CandidateFailed
    /\ e_last.to >= e_last.from + 3
    /\ e_last.to < Len(e_script)
    /\ e_script[e_last.to].kind = "Op"
    /\ e_envelopes = <<>>

\* C7: for a script made of k well-formed OP_FALSE OP_IF <pushes> OP_ENDIF
\* groups, with opcodes that are no pushes before, between and after them,
\* from_script returns exactly k envelopes, in the order of the groups, each
\* holding the pushes of its group in order.
C7_MadeOfGroups ==
    \A j \in 1..Len(e_script) :
        \/ \E g \in Groups : g[1] <= j /\ j <= g[2]
        \/ e_script[j].kind = "Op"

C7_Between(j) == \A g \in Groups : j < g[1] \/ j > g[2]

C7_NthGroup(i) ==
    CHOOSE g \in Groups : Cardinality({h \in Groups : h[1] < g[1]}) = i - 1

C7_EnvelopePerGroup ==
    (Scanned /\ C7_MadeOfGroups) =>
        /\ Len(e_envelopes) = Cardinality(Groups)
        /\ \A i \in 1..Len(e_envelopes) :
              e_envelopes[i] = GroupChunks(C7_NthGroup(i))

C7_Witness ==
    /\ Scanned /\ C7_MadeOfGroups /\ ~e_built
    /\ Cardinality(Groups) = 2
    /\ C7_Between(1) \/ C7_Between(Len(e_script))
    /\ \E j \in 1..Len(e_script) :
          /\ C7_Between(j)
          /\ \E g \in Groups : g[2] < j
          /\ \E g \in Groups : j < g[1]
    /\ Len(e_envelopes) = 2 /\ Len(e_envelopes[2]) = 2


(***************************************************************************)
(* Claims about the identifier, checked under SpecId.                      *)
(***************************************************************************)
\* the string of i_id has been parsed back
ParsedBack == i_pc = "done" /\ i_string # <<>>

\* C3: for every EmbeddingId that Embedding::id or EmbeddingId::from_str can
\* produce (sub_index None for OpReturn/TaprootAnnex, Some(n) for
\* BareEnvelope/WitnessEnvelope, n = 0 included), from_str(to_string(id))
\* succeeds and returns an id with the same txid, embedding_type, index and
\* sub_index.
C3_IdRoundTrip ==
    ParsedBack =>
        /\ i_result.ok
        /\ i_result.id.txid = i_id.txid
        /\ i_result.id.embedding_type = i_id.embedding_type
        /\ i_result.id.index = i_id.index
        /\ i_result.id.sub_index = i_id.sub_index

C3_Witness ==
    /\ ParsedBack
    /\ i_embedding # <<>>
    /\ i_id.embedding_type = BareEnvelope
    /\ i_id.sub_index = Some(0)
    /\ i_id.index > 9
    /\ i_result = IdOk(i_id)

(***************************************************************************)
(* Claims about the scanner, checked under SpecTx.                         *)
(***************************************************************************)
Extracted == t_pc = "done"

\* the group of an embedding: carried by an output, by a witness script, by
\* an annex
C4_Group(embedding) ==
    CASE embedding.location.variant \in {"OpReturn", "BareEnvelope"} -> 1
      [] embedding.location.variant = "WitnessEnvelope" -> 2
      [] embedding.location.variant = "TaprootAnnex" -> 3

\* its output or input index
C4_Slot(embedding) ==
    IF C4_Group(embedding) = 1 THEN embedding.location.output
    ELSE embedding.location.input

\* its envelope index, where it is an envelope
C4_EnvelopeIndex(embedding) ==
    IF embedding.location.variant \in {"BareEnvelope", "WitnessEnvelope"}
    THEN embedding.location.index
    ELSE 0

C4_Precedes(a, b) ==
    \/ C4_Group(a) < C4_Group(b)
    \/ /\ C4_Group(a) = C4_Group(b)
       /\ \/ C4_Slot(a) < C4_Slot(b)
          \/ /\ C4_Slot(a) = C4_Slot(b)
             /\ C4_EnvelopeIndex(a) < C4_EnvelopeIndex(b)

\* C4: in the list returned by Embedding::from_transaction every
\* output-carried embedding (OpReturn or BareEnvelope) precedes every
\* WitnessEnvelope embedding, and every WitnessEnvelope embedding precedes
\* every TaprootAnnex embedding; within each group the embeddings are in
\* ascending output/input index, and the envelopes of one script in ascending
\* envelope index.  So the annex embedding of input i comes after the witness
\* envelopes of every input j > i.
C4_ScannerOrder ==
    Extracted =>
        \A i, j \in 1..Len(t_embeddings) :
            i < j => C4_Precedes(t_embeddings[i], t_embeddings[j])

\* a transaction with an output-carried embedding, the annex of input 0 and
\* two envelopes in the witness script of input 1
C4_Witness ==
    /\ Extracted
    /\ \E h, i, j, k \in 1..Len(t_embeddings) :
          /\ h < i /\ i < j /\ j < k
          /\ C4_Group(t_embeddings[h]) = 1
          /\ t_embeddings[i].location.variant = "WitnessEnvelope"
          /\ t_embeddings[i].location.input = 1
          /\ t_embeddings[i].location.index = 0
          /\ t_embeddings[j].location.variant = "WitnessEnvelope"
          /\ t_embeddings[j].location.input = 1
          /\ t_embeddings[j].location.index = 1
          /\ t_embeddings[k].location.variant = "TaprootAnnex"
          /\ t_embeddings[k].location.input = 0

\* the embeddings of the result that are of `variant` and of output or
\* input `slot`, in the order of the result
EmbeddingsAt(variant, slot) ==
    SelectSeq(t_embeddings,
              LAMBDA e : /\ e.location.variant = variant
                         /\ slot = IF variant \in {"OpReturn", "BareEnvelope"}
                                   THEN e.location.output
                                   ELSE e.location.input)

\* the script and script type the claim gives to a witness, <<>> for none
C16_Selected(witness) ==
    LET leaf == taproot_leaf_script(witness)
        tapscript == IF leaf = None THEN FALSE
                     ELSE leaf[1].version = "TapScript"
    IN
    IF tapscript THEN <<leaf[1].script, "Tapscript">>
    ELSE IF /\ taproot_annex(witness) = None
            /\ Len(witness) > 1
            /\ witness_script(witness) # None
    THEN <<witness_script(witness)[1], "Legacy">>
    ELSE <<>>

\* C16: for each input, from_transaction scans at most one script for
\* witness envelopes and all WitnessEnvelope embeddings of the input share
\* one script_type: Tapscript (the leaf script) if the witness has a taproot
\* leaf script of leaf version TapScript; otherwise Legacy (the witness
\* script) only if the witness has no taproot annex, has more than one
\* element and a witness script can be derived; otherwise the input yields no
\* WitnessEnvelope embedding.
C16_ScriptSelection ==
    Extracted =>
        \A k \in 1..Len(t_tx.input) :
            LET found == EmbeddingsAt("WitnessEnvelope", k - 1)
                selected == C16_Selected(t_tx.input[k])
            IN
            IF selected = <<>> THEN found = <<>>
            ELSE LET envelopes == from_script(instructions(selected[1])) IN
                 /\ Len(found) = Len(envelopes)
                 /\ \A i \in 1..Len(found) :
                       /\ found[i].location.script_type = selected[2]
                       /\ found[i].bytes = ConcatAll(envelopes[i])

\* input 0 has an annex that reads as an envelope script and yields no
\* witness envelope, input 1 is scanned as Tapscript
C16_Witness ==
    /\ Extracted
    /\ Len(t_tx.input) = 2
    /\ t_tx.input[1] = <<<<1>>, AnnexEnvelope>>
    /\ from_script(instructions(AnnexEnvelope)) # <<>>
    /\ EmbeddingsAt("WitnessEnvelope", 0) = <<>>
    /\ Len(EmbeddingsAt("WitnessEnvelope", 1)) = 2
    /\ EmbeddingsAt("WitnessEnvelope", 1)[2].location.script_type = "Tapscript"

C16_WitnessLegacy ==
    /\ Extracted
    /\ Len(t_tx.input) = 1
    /\ Len(EmbeddingsAt("WitnessEnvelope", 0)) = 1
    /\ EmbeddingsAt("WitnessEnvelope", 0)[1].location.script_type = "Legacy"

\* the annex of a witness as BIP 341 has it: the last of two or more
\* elements, when its first byte is 0x50; <<>> when there is none
C17_Annex(witness) ==
    IF Len(witness) < 2 THEN <<>>
    ELSE LET last == witness[Len(witness)] IN
         IF last # <<>> /\ last[1] = 80 THEN last ELSE <<>>

\* C17: from_transaction emits a TaprootAnnex{input} embedding for an input
\* if and only if its witness has a taproot annex of more than 2 bytes whose
\* second byte is 0; the bytes of the embedding are the annex from its third
\* byte on (never empty), and there is at most one TaprootAnnex embedding
\* for an input.  An annex of exactly 2 bytes, or with another second byte,
\* yields none.
C17_AnnexRule ==
    Extracted =>
        \A k \in 1..Len(t_tx.input) :
            LET found == EmbeddingsAt("TaprootAnnex", k - 1)
                annex == C17_Annex(t_tx.input[k])
            IN
            IF Len(annex) > 2 /\ annex[2] = 0
            THEN /\ Len(found) = 1
                 /\ found[1].bytes = SubSeq(annex, 3, Len(annex))
                 /\ found[1].bytes # <<>>
                 /\ found[1].txid = t_tx.txid
            ELSE found = <<>>

\* input 0 has an annex of exactly two bytes, input 1 an annex with data
C17_Witness ==
    /\ Extracted
    /\ Len(t_tx.input) = 2
    /\ C17_Annex(t_tx.input[1]) = <<80, 0>>
    /\ EmbeddingsAt("TaprootAnnex", 0) = <<>>
    /\ Len(EmbeddingsAt("TaprootAnnex", 1)) = 1
    /\ EmbeddingsAt("TaprootAnnex", 1)[1].bytes = <<72, 105>>

\* C18: for every output whose script is an OP_RETURN script,
\* from_transaction emits exactly one embedding, with location
\* OpReturn{output} and the script bytes after the first byte, and no
\* BareEnvelope embedding for that output, even when the script holds an
\* OP_FALSE OP_IF .. OP_ENDIF group; an output that is not OP_RETURN never
\* yields an OpReturn embedding.
C18_OpReturnRule ==
    Extracted =>
        \A k \in 1..Len(t_tx.output) :
            LET script == t_tx.output[k]
                returns == EmbeddingsAt("OpReturn", k - 1)
                bare == EmbeddingsAt("BareEnvelope", k - 1)
            IN
            IF script # <<>> /\ script[1] = 106
            THEN /\ Len(returns) = 1
                 /\ returns[1].bytes = SubSeq(script, 2, Len(script))
                 /\ returns[1].txid = t_tx.txid
                 /\ bare = <<>>
            ELSE returns = <<>>

\* output 0 is an OP_RETURN script that holds an envelope group, output 1 a
\* script with envelopes
C18_Witness ==
    /\ Extracted
    /\ Len(t_tx.output) = 2
    /\ t_tx.output[1][1] = 106
    /\ from_script(instructions(t_tx.output[1])) # <<>>
    /\ Len(EmbeddingsAt("OpReturn", 0)) = 1
    /\ EmbeddingsAt("BareEnvelope", 0) = <<>>
    /\ EmbeddingsAt("OpReturn", 1) = <<>>
    /\ EmbeddingsAt("BareEnvelope", 1) # <<>>

RECURSIVE Sum(_)
Sum(ns) == IF ns = <<>> THEN 0 ELSE ns[1] + Sum(Tail(ns))

\* the embeddings `found` are the envelopes from_script finds in `script`
C19_Matches(found, script) ==
    LET envelopes == from_script(instructions(script)) IN
    /\ Len(found) = Len(envelopes)
    /\ \A i \in 1..Len(found) :
          /\ found[i].location.index = i - 1
          /\ found[i].bytes = ConcatAll(envelopes[i])
          /\ Len(found[i].location.pushes) = Len(envelopes[i])
          /\ \A j \in 1..Len(envelopes[i]) :
                found[i].location.pushes[j] = Len(envelopes[i][j])
          /\ Sum(found[i].location.pushes) = Len(found[i].bytes)

\* C19: every BareEnvelope or WitnessEnvelope embedding returned by
\* from_transaction is one envelope found by from_script in that output or
\* witness script: its bytes are the chunks of the envelope joined in order,
\* its pushes are the lengths of the chunks in order (so they add up to the
\* length of bytes), and the index values of the envelopes of one script are
\* 0, 1, .., k-1 in the order they are met.
C19_EnvelopeEmbeddings ==
    Extracted =>
        /\ \A k \in 1..Len(t_tx.output) :
              LET script == t_tx.output[k] IN
              (script = <<>> \/ script[1] # 106) =>
                  C19_Matches(EmbeddingsAt("BareEnvelope", k - 1), script)
        /\ \A k \in 1..Len(t_tx.input) :
              LET selected == C16_Selected(t_tx.input[k]) IN
              selected # <<>> =>
                  C19_Matches(EmbeddingsAt("WitnessEnvelope", k - 1),
                              selected[1])

\* the second envelope of a script, of the chunks [3] and [4,5], in an
\* output and in a witness
C19_Witness ==
    /\ Extracted
    /\ \E i, j \in 1..Len(t_embeddings) :
          /\ t_embeddings[i].location =
                 [variant |-> "BareEnvelope", output |-> 1, index |-> 1,
                  pushes |-> <<1, 2>>]
          /\ t_embeddings[i].bytes = <<3, 4, 5>>
          /\ t_embeddings[j].location.variant = "WitnessEnvelope"
          /\ t_embeddings[j].location.index = 1
          /\ t_embeddings[j].location.pushes = <<1, 2>>
          /\ t_embeddings[j].bytes = <<3, 4, 5>>

(***************************************************************************)
(* More claims about the identifier, checked under SpecId.                 *)
(***************************************************************************)
\* i_id has been written as a string
Shown == i_string # <<>>

\* the type codes of the identifier string
C20_Code(embedding_type) ==
    IF embedding_type = OpReturn THEN <<"r", "t">>
    ELSE IF embedding_type = BareEnvelope THEN <<"b", "e">>
    ELSE IF embedding_type = TaprootAnnex THEN <<"t", "a">>
    ELSE IF embedding_type = WitnessEnvelope(Legacy) THEN <<"l", "e">>
    ELSE <<"t", "e">>

C20_IsEnvelope(embedding_type) ==
    embedding_type \in {BareEnvelope, WitnessEnvelope(Legacy),
                        WitnessEnvelope(Tapscript)}

\* C20: EmbeddingId::to_string yields txid:code:index with the codes rt, be,
\* ta, le and te, followed by :sub_index only when the type is an envelope
\* type and sub_index is Some(n) with n > 0; an id with sub_index Some(0) or
\* None has the form of three parts.
C20_ToString ==
    Shown =>
        LET parts == split_colon(i_string)
            four == /\ C20_IsEnvelope(i_id.embedding_type)
                    /\ i_id.sub_index # None
                    /\ i_id.sub_index # Some(0)
        IN
        /\ Len(parts) = IF four THEN 4 ELSE 3
        /\ parts[1] = Txid_to_string(i_id.txid)
        /\ parts[2] = C20_Code(i_id.embedding_type)
        /\ parse_usize(parts[3]) = [ok |-> TRUE, value |-> i_id.index]
        /\ parts[3][1] # "+"
        /\ four => /\ parse_usize(parts[4]) =
                          [ok |-> TRUE, value |-> i_id.sub_index[1]]
                   /\ parts[4][1] # "+"

\* a tapscript envelope id with sub_index Some(0) is written in three parts
C20_Witness ==
    /\ i_pc = "shown"
    /\ i_id.embedding_type = WitnessEnvelope(Tapscript)
    /\ i_id.index = 2
    /\ i_id.sub_index = Some(0)
    /\ Tail(split_colon(i_string)) = << <<"t", "e">>, <<"2">> >>

\* a legacy envelope id with sub_index Some(3) in four parts
C20_WitnessSubIndex ==
    /\ i_pc = "shown"
    /\ i_id.embedding_type = WitnessEnvelope(Legacy)
    /\ i_id.sub_index = Some(3)
    /\ Tail(split_colon(i_string)) = << <<"l", "e">>, <<"0">>, <<"3">> >>

\* ids without a sub_index, of an envelope type and of another type, and an
\* id of another type that holds a sub_index
C20_WitnessNone ==
    /\ i_pc = "shown"
    /\ i_id.embedding_type = BareEnvelope
    /\ i_id.sub_index = None
    /\ Tail(split_colon(i_string)) = << <<"b", "e">>, <<"2">> >>

C20_WitnessOther ==
    /\ i_pc = "shown"
    /\ i_id.embedding_type = OpReturn
    /\ i_id.sub_index = Some(3)
    /\ Tail(split_colon(i_string)) = << <<"r", "t">>, <<"2">> >>

\* i_result is the result of from_str on i_raw
Parsed == i_raw # <<>> /\ (i_pc = "id" \/ (i_pc = "done" /\ i_string = <<>>))

\* what the parts of an identifier string have to be
C21_IsTxid(part) ==
    Len(part) = 64 /\ \A k \in 1..64 : \E d \in 1..16 :
                          part[k] = HexLower[d] \/ part[k] = HexUpper[d]

C21_IsNumber(part) ==
    part # <<>> /\ \A k \in 1..Len(part) : \E d \in 1..10 : part[k] = Digits[d]

C21_EnvelopeCodes == {<<"b", "e">>, <<"l", "e">>, <<"t", "e">>}

C21_OtherCodes == {<<"r", "t">>, <<"t", "a">>}

\* the parts of i_raw are 3 or 4, a txid, a type code and numbers
C21_WellFormed ==
    LET parts == split_colon(i_raw) IN
    /\ Len(parts) \in {3, 4}
    /\ C21_IsTxid(parts[1])
    /\ parts[2] \in C21_EnvelopeCodes \cup C21_OtherCodes
    /\ \A k \in 3..Len(parts) : C21_IsNumber(parts[k])

\* C21: EmbeddingId::from_str on a string with a valid txid, a valid type
\* code and a numeric index (and a numeric sub_index when there is one): for
\* be, le and te a string of 3 parts yields sub_index Some(0) and a string of
\* 4 parts yields Some(the value given), so that ':be:2' and ':be:2:0' parse
\* to equal ids; for rt and ta a string of 3 parts yields sub_index None and
\* a string of 4 parts fails with InvalidFormat.
C21_SubIndexRule ==
    (Parsed /\ C21_WellFormed) =>
        LET parts == split_colon(i_raw) IN
        IF parts[2] \in C21_EnvelopeCodes
        THEN /\ i_result.ok
             /\ i_result.id.index = digits_value(parts[3], 0)
             /\ i_result.id.sub_index =
                    IF Len(parts) = 3 THEN Some(0)
                    ELSE Some(digits_value(parts[4], 0))
             /\ Len(parts) = 3 =>
                    EmbeddingId_from_str(i_raw \o <<":", "0">>) = i_result
        ELSE IF Len(parts) = 3
        THEN i_result.ok /\ i_result.id.sub_index = None
        ELSE ~i_result.ok /\ i_result.error = "InvalidFormat"

\* ':be:7' has been parsed, with sub_index Some(0)
C21_Witness ==
    /\ Parsed
    /\ Tail(split_colon(i_raw)) = << <<"b", "e">>, <<"7">> >>
    /\ i_result.ok
    /\ i_result.id.embedding_type = BareEnvelope
    /\ i_result.id.index = 7
    /\ i_result.id.sub_index = Some(0)

\* ':ta:7:0' has been refused
C21_WitnessRefused ==
    /\ Parsed
    /\ C21_WellFormed
    /\ Tail(split_colon(i_raw)) = << <<"t", "a">>, <<"7">>, <<"0">> >>
    /\ i_result = IdErr("InvalidFormat")

\* ':le:10:003' has been parsed, with sub_index Some(3)
C21_WitnessGiven ==
    /\ Parsed
    /\ Tail(split_colon(i_raw)) = << <<"l", "e">>, <<"1", "0">>, <<"0", "0", "3">> >>
    /\ i_result.ok
    /\ i_result.id.index = 10
    /\ i_result.id.sub_index = Some(3)

\* a non-negative integer as str::parse::<usize> reads it: decimal digits,
\* with or without a '+' before them
C22_IsInteger(part) ==
    \/ C21_IsNumber(part)
    \/ part # <<>> /\ part[1] = "+" /\ C21_IsNumber(Tail(part))

\* the error of the first check of the list that fails, "" when none fails
C22_FirstError(parts) ==
    IF Len(parts) \notin {3, 4} THEN "InvalidFormat"
    ELSE IF ~C21_IsTxid(parts[1]) THEN "InvalidTxid"
    ELSE IF parts[2] \notin C21_EnvelopeCodes \cup C21_OtherCodes
    THEN "InvalidType"
    ELSE IF ~C22_IsInteger(parts[3]) THEN "InvalidIndex"
    ELSE IF Len(parts) = 4 /\ ~C22_IsInteger(parts[4]) THEN "InvalidIndex"
    ELSE IF Len(parts) = 4 /\ parts[2] \in C21_OtherCodes
    THEN "InvalidFormat"
    ELSE ""

\* C22: EmbeddingId::from_str returns the error of the first failing check
\* in this order: the number of parts between ':' is not 3 or 4 ->
\* InvalidFormat; part 0 is not a txid -> InvalidTxid; part 1 is not one of
\* rt, be, ta, le, te -> InvalidType; part 2 is not a non-negative integer ->
\* InvalidIndex; part 3 is there and is not a non-negative integer ->
\* InvalidIndex; a sub_index is there for rt or ta -> InvalidFormat.  It
\* succeeds when no check fails.
C22_ErrorOrder ==
    Parsed =>
        LET error == C22_FirstError(split_colon(i_raw)) IN
        IF error = "" THEN i_result.ok
        ELSE ~i_result.ok /\ i_result.error = error

\* a string with a bad txid and a bad type gives InvalidTxid
C22_Witness ==
    /\ Parsed
    /\ LET parts == split_colon(i_raw) IN
       /\ Len(parts) = 3
       /\ Len(parts[1]) = 63
       /\ parts[2] = <<"x">>
    /\ i_result = IdErr("InvalidTxid")

\* ':rt:7:x' gives InvalidIndex, not InvalidFormat
C22_WitnessIndex ==
    /\ Parsed
    /\ C21_IsTxid(split_colon(i_raw)[1])
    /\ Tail(split_colon(i_raw)) = << <<"r", "t">>, <<"7">>, <<"x">> >>
    /\ i_result = IdErr("InvalidIndex")

\* five parts give InvalidFormat whatever they hold
C22_WitnessParts ==
    /\ Parsed
    /\ Len(split_colon(i_raw)) = 5
    /\ i_result = IdErr("InvalidFormat")

\* i_id has been returned by Embedding::id or by from_str
Produced == i_id # <<>> /\ i_pc \in {"id", "string", "done"}

\* sub_index is None exactly for the types that are not envelope types
C23_SubIndexOf(id) ==
    id.sub_index = None <=> id.embedding_type \in {OpReturn, TaprootAnnex}

C23_WitnessParsed ==
    /\ Parsed
    /\ Len(split_colon(i_raw)) = 3
    /\ i_result.ok
    /\ i_result.id.embedding_type = WitnessEnvelope(Legacy)
    /\ i_result.id.sub_index # None

(***************************************************************************)
(* More claims about the envelope codec, checked under SpecEnv.            *)
(***************************************************************************)
\* e_script is the script of append_bytes_to_builder(e_chunks[1], ..)
BuiltOfBytes == e_built /\ Len(e_chunks) = 1

\* C24: for a byte string of any length (lengths above 520 included),
\* append_bytes_to_builder emits OP_FALSE OP_IF, data pushes of at most 520
\* bytes each, then OP_ENDIF, and from_script on the script returns exactly
\* one envelope whose chunks, joined in order, are the byte string.
C24_BytesRoundTrip ==
    BuiltOfBytes =>
        LET n == Len(e_script)
            pushes == SubSeq(e_script, 3, n - 1)
        IN
        /\ n >= 3
        /\ e_script[1] = OP_FALSE
        /\ e_script[2] = Op(OP_IF)
        /\ e_script[n] = Op(OP_ENDIF)
        /\ \A k \in 1..Len(pushes) :
              /\ pushes[k].kind = "PushBytes"
              /\ Len(pushes[k].bytes) <= 520
        /\ ConcatAll([k \in 1..Len(pushes) |-> pushes[k].bytes]) = e_chunks[1]
        /\ e_pc = "done" =>
              /\ Len(e_envelopes) = 1
              /\ ConcatAll(e_envelopes[1]) = e_chunks[1]

\* a byte string of 2 * 520 + 1 bytes has come back in three chunks
C24_Witness ==
    /\ BuiltOfBytes
    /\ e_pc = "done"
    /\ Len(e_chunks[1]) = 1041
    /\ Len(e_envelopes) = 1
    /\ Len(e_envelopes[1]) = 3
    /\ Len(e_envelopes[1][3]) = 1

\* the empty byte string has come back as the envelope without chunks
C24_WitnessEmpty ==
    /\ BuiltOfBytes
    /\ e_pc = "done"
    /\ e_chunks = << <<>> >>
    /\ e_script = <<OP_FALSE, Op(OP_IF), Op(OP_ENDIF)>>
    /\ e_envelopes = << <<>> >>

\* the last candidate began with OP_FALSE OP_IF: the envelope is open
C25_Opened ==
    /\ e_last.from > 0
    /\ e_last.to > e_last.from
    /\ e_script[e_last.from + 1] = Op(OP_IF)

C25_IsPushNum(instruction) ==
    /\ instruction.kind = "Op"
    /\ instruction.code = 79 \/ instruction.code \in 81..96

\* the chunk of an instruction inside an envelope
C25_Chunk(instruction) ==
    IF instruction.kind = "PushBytes" THEN instruction.bytes
    ELSE IF instruction.code = 79 THEN <<129>>
    ELSE <<instruction.code - 80>>

\* C25: inside an open envelope, from_script turns each opcode OP_PUSHNUM_k
\* (k = 1..16) into the chunk [k] and OP_PUSHNUM_NEG1 into the chunk [0x81],
\* at the place of the opcode among the other chunks; none of these 17
\* opcodes invalidates the envelope.
C25_PushNums ==
    C25_Opened =>
        LET taken == SubSeq(e_script, e_last.from + 2, e_last.to)
            n == Len(taken)
            reported == e_envelopes # e_last.before
        IN
        /\ reported =>
              /\ taken[n] = Op(OP_ENDIF)
              /\ e_envelopes =
                    Append(e_last.before,
                           [k \in 1..(n - 1) |-> C25_Chunk(taken[k])])
        /\ (~reported /\ n > 0 /\ C25_IsPushNum(taken[n])) =>
              /\ e_last.to = Len(e_script)
              /\ \A k \in 1..n : taken[k].kind = "PushBytes"
                                    \/ C25_IsPushNum(taken[k])

\* OP_PUSHNUM_NEG1 between two pushes is the second chunk of three
C25_Witness ==
    /\ e_pc = "done"
    /\ e_script = <<OP_FALSE, Op(OP_IF), PushBytes(<<7>>), Op(79),
                    PushBytes(<<8>>), Op(OP_ENDIF)>>
    /\ e_envelopes = << << <<7>>, <<129>>, <<8>> >> >>

\* OP_PUSHNUM_16 alone is the chunk [16]
C25_WitnessSixteen ==
    /\ e_pc = "done"
    /\ e_script = <<OP_FALSE, Op(OP_IF), Op(96), Op(OP_ENDIF)>>
    /\ e_envelopes = << << <<16>> >> >>

(***************************************************************************)
(* Claims about the framing of tagged_data.rs, checked under SpecTag.      *)
(***************************************************************************)
TagDecoded == g_pc = "done"

\* C26: for every non-empty sequence of chunks built with TaggedData::new
\* (any bodies, empty bodies before the last chunk included),
\* TaggedData::decode(TaggedData::encode(chunks)) succeeds and equals chunks.
C26_TaggedRoundTrip ==
    (TagDecoded /\ g_encoded /\ g_input # <<>>) => g_result = TagOk(g_input)

\* the round trip of chunks whose bodies before the last are not empty
C26_RoundTripNonEmpty ==
    (/\ TagDecoded /\ g_encoded /\ g_input # <<>>
     /\ \A k \in 1..(Len(g_input) - 1) : g_input[k].bytes # <<>>)
    => g_result = TagOk(g_input)

\* [(1, []), (2, [0])] is encoded as [1, 0, 2, 0, 0] and comes back as the
\* one chunk (1, [2, 0, 0])
C26_Swallowed ==
    /\ TagDecoded
    /\ g_input = <<Tagged(FromNat(1), <<>>), Tagged(FromNat(2), <<0>>)>>
    /\ g_bytes = <<1, 0, 2, 0, 0>>
    /\ g_result = TagOk(<<Tagged(FromNat(1), <<2, 0, 0>>)>>)

\* the last candidate is an empty push with no OP_IF right after it
C27_NoIf ==
    /\ e_last.from > 0
    /\ \/ e_last.from = Len(e_script)
       \/ e_script[e_last.from + 1] # Op(99)

\* C27: when from_script meets an empty data push that is not followed at
\* once by OP_IF, the attempt takes nothing but that empty push: the next
\* instruction is looked at afresh by the scan, so that OP_FALSE OP_FALSE
\* OP_IF <d> OP_ENDIF yields the one envelope [d], and OP_FALSE OP_CHECKSIG
\* yields none.
C27_NothingConsumed ==
    /\ C27_NoIf => /\ e_last.to = e_last.from
                   /\ e_envelopes = e_last.before
                   /\ e_pos >= e_last.from
    /\ (/\ e_pc = "done"
        /\ Len(e_script) >= 2
        /\ e_script[1] = OP_FALSE
        /\ e_script[2] # Op(99))
       => e_envelopes = from_script(Tail(e_script))

\* OP_FALSE OP_FALSE OP_IF <7> OP_ENDIF has given the envelope [7]
C27_Witness ==
    /\ e_pc = "done"
    /\ e_script = <<OP_FALSE, OP_FALSE, Op(99), PushBytes(<<7>>), Op(104)>>
    /\ e_envelopes = << << <<7>> >> >>

\* OP_FALSE OP_CHECKSIG has given none
C27_WitnessNone ==
    /\ e_pc = "done"
    /\ e_script = <<OP_FALSE, Op(172)>>
    /\ e_last = [from |-> 1, to |-> 1, before |-> <<>>]
    /\ e_envelopes = <<>>

C28_IsChunk(instruction) ==
    instruction.kind = "PushBytes" \/ C25_IsPushNum(instruction)

\* the script begins with OP_FALSE OP_IF, and the first instruction after
\* them that is no chunk is an opcode other than OP_ENDIF, at place
\* C28_Offending
C28_Stops == {k \in 3..Len(e_script) : ~C28_IsChunk(e_script[k])}

C28_Offending == CHOOSE k \in C28_Stops : \A j \in C28_Stops : k <= j

C28_FirstFails ==
    /\ Len(e_script) >= 3
    /\ e_script[1] = OP_FALSE
    /\ e_script[2] = Op(99)
    /\ C28_Stops # {}
    /\ e_script[C28_Offending].kind = "Op"
    /\ e_script[C28_Offending] # Op(104)

\* one step of the scan takes one instruction or more and leaves the
\* envelopes found before as they are
C28_Forward ==
    e_pc = "scan" /\ e_pc' = "scan" =>
        /\ e_pos' > e_pos
        /\ e_pos' <= Len(e_script)
        /\ SubSeq(e_envelopes', 1, Len(e_envelopes)) = e_envelopes
        /\ e_last' # e_last => e_last'.from = e_pos + 1 /\ e_last'.to = e_pos'

\* C28: from_script looks at each instruction of the script at most once,
\* from left to right.  After a candidate failed on a disallowed opcode, that
\* opcode and every instruction of the candidate before it stay consumed: an
\* OP_FALSE OP_IF <pushes> OP_ENDIF group whose OP_FALSE lies inside the
\* failed candidate (where it was taken as an empty chunk) is not reported,
\* while a well-formed group that begins after the opcode is reported.
C28_NoBacktracking ==
    /\ [][C28_Forward]_vars
    /\ []((e_pc = "done" /\ C28_FirstFails) =>
            e_envelopes =
              from_script(SubSeq(e_script, C28_Offending + 1, Len(e_script))))

\* OP_FALSE OP_IF OP_FALSE OP_IF <7> OP_ENDIF: the second OP_FALSE was taken
\* as a chunk, the second OP_IF ended the candidate, nothing is reported
C28_Witness ==
    /\ e_pc = "done"
    /\ e_script = <<OP_FALSE, Op(99), OP_FALSE, Op(99), PushBytes(<<7>>)>>
                    \o <<Op(104)>>
    /\ C28_FirstFails
    /\ C28_Offending = 4
    /\ e_envelopes = <<>>

\* OP_FALSE OP_IF OP_DUP, then a group: the group is reported
C28_WitnessAfter ==
    /\ e_pc = "done"
    /\ C28_FirstFails
    /\ C28_Offending = 3
    /\ Len(e_script) = 7
    /\ e_script[3] = Op(118)
    /\ e_envelopes = << << <<7>> >> >>

(***************************************************************************)
(* Termination of Message::decode, checked under SpecDecodeLive.           *)
(***************************************************************************)
\* the value read by the last iteration has the terminal bit
C29_TerminalRead == m_iter.value # <<>> /\ m_iter.value[1] % 2 = 1

\* an iteration after which the loop goes on
C29_Progress ==
    (m_pc = "decode" /\ m_pc' = "decode") =>
        /\ m_index' >= m_index + 1
        /\ m_index' <= Len(m_bytes)

\* when the loop runs and when it has stopped
C29_Stops ==
    /\ m_pc = "decode" =>
          /\ m_result = NoResult
          /\ ~C29_TerminalRead
          /\ m_index <= Len(m_bytes)
    /\ C29_TerminalRead =>
          /\ m_pc = "done"
          /\ \/ m_result = Err("InvalidTag")
             \/ /\ m_result.ok
                /\ m_result.messages # <<>>
                /\ m_result.messages[Len(m_result.messages)].body =
                      SubSeq(m_bytes, m_iter.body_at + 1, Len(m_bytes))
    /\ (m_pc = "done" /\ m_result.ok /\ ~C29_TerminalRead) =>
          m_index = Len(m_bytes)
    /\ (m_pc = "done" /\ m_bytes = <<>>) => m_result = Ok(<<>>)

\* C29: Message::decode terminates on every finite input: each iteration of
\* the loop moves the read index forward by one byte or more, and the loop
\* stops as soon as a terminal record is read (its body being all the bytes
\* that are left, whatever they hold), an error is returned, or the index
\* reaches the end of the input; the empty input decodes to the empty list.
C29_DecodeTerminates ==
    /\ (m_pc = "decode") ~> (m_pc = "done")
    /\ [][C29_Progress]_vars
    /\ []C29_Stops

\* [3, 128]: the terminal record of tag 1 takes the byte left, which is no
\* varint
C29_Witness ==
    /\ m_pc = "done"
    /\ m_bytes = <<3, 128>>
    /\ m_index = 1
    /\ m_result = Ok(<<Msg(FromNat(1), <<128>>)>>)

\* the empty input
C29_WitnessEmpty ==
    /\ m_pc = "done"
    /\ ~m_encoded
    /\ m_bytes = <<>>
    /\ m_result = Ok(<<>>)

\* four records read by four iterations, the fourth terminal
C29_WitnessLoop ==
    /\ m_pc = "done"
    /\ m_bytes = <<2, 1, 5, 4, 1, 6, 2, 2, 7, 8, 7, 9>>
    /\ m_index = 11
    /\ m_result.ok
    /\ Len(m_result.messages) = 4
    /\ m_result.messages[4] = Msg(FromNat(3), <<9>>)

\* the index has reached the end of the input after a record of length 0
C29_WitnessEnd ==
    /\ m_pc = "done"
    /\ m_bytes = <<2, 1, 5, 4, 0, 6, 6>>
    /\ m_index = 7
    /\ ~C29_TerminalRead
    /\ m_result = Ok(<<Msg(FromNat(1), <<5>>), Msg(FromNat(2), <<6, 6>>)>>)

(***************************************************************************)
(* One more claim about the scanner, checked under SpecTx.                 *)
(***************************************************************************)
\* the ids and the identifier strings of the embeddings returned
C30_Ids == [k \in 1..Len(t_embeddings) |-> Embedding_id(t_embeddings[k])]

C30_Strings == [k \in 1..Len(t_embeddings) |-> EmbeddingId_to_string(C30_Ids[k])]

\* C30: in the list returned by one call of Embedding::from_transaction no
\* two embeddings have the same EmbeddingId (embedding_type, index,
\* sub_index), and so no two have the same identifier string.
C30_DistinctIds ==
    Extracted =>
        LET ids == C30_Ids
            strings == C30_Strings
        IN
        \A i, j \in 1..Len(t_embeddings) :
            i < j =>
                /\ <<ids[i].embedding_type, ids[i].index, ids[i].sub_index>>
                     # <<ids[j].embedding_type, ids[j].index, ids[j].sub_index>>
                /\ strings[i] # strings[j]

\* two outputs with two envelopes each and two inputs with a tapscript
\* envelope and an annex each: eight embeddings, among them ids that differ
\* only by the type, only by the index and only by the sub_index
C30_Witness ==
    /\ Extracted
    /\ Len(t_embeddings) = 8
    /\ \E i, j, k, l, m \in 1..8 :
          LET a == C30_Ids[i]
              b == C30_Ids[j]
              c == C30_Ids[k]
              d == C30_Ids[l]
              e == C30_Ids[m]
          IN
          /\ e.embedding_type = TaprootAnnex /\ e.index = 0
          /\ e.sub_index = None
          /\ a.embedding_type = BareEnvelope /\ a.index = 0
          /\ a.sub_index = Some(0)
          /\ b.embedding_type = BareEnvelope /\ b.index = 0
          /\ b.sub_index = Some(1)
          /\ c.embedding_type = BareEnvelope /\ c.index = 1
          /\ c.sub_index = Some(0)
          /\ d.embedding_type = WitnessEnvelope(Tapscript) /\ d.index = 0
          /\ d.sub_index = Some(0)

=============================================================================
